---- MODULE Spec2Model ----
(***************************************************************************)
(* Model of the idraak backend's denormalized counters and voting.         *)
(*                                                                         *)
(* The database tables of schema.sql are the variables; every pool.query   *)
(* of an HTTP handler of index.js is one atomic step (the handlers open no *)
(* transaction, so each statement commits on its own), and a row trigger   *)
(* of schema.sql runs inside the statement that fires it.                  *)
(***************************************************************************)
EXTENDS Integers, Sequences, FiniteSets

(* ------------------------------------------------------------------ *)
(* Universes and bounds                                               *)
(* ------------------------------------------------------------------ *)

Users == {"u1", "u2"}
Roles == {"r1", "r2"}
Issues == {"i1"}
Groups == {"g1"}
\* HTTP requests in flight at the same time
Reqs == {"q1", "q2"}
\* the req_id of the role-change requests on file
RoleReqIds == {"rr1"}

\* the role whose upvote_weight the administrator edits; r1 is the default
\* role of a registered user and keeps the column default 1
EditedRoles == {"r2"}

\* largest roles.upvote_weight the administrator sets
MaxWeight == 2
\* a toggle is admitted while -MaxCount < upvote_count <= MaxCount; a voter
\* who has a vote may still toggle up to MaxCount + 2 * MaxWeight
MaxCount == 2

Weights == 1..MaxWeight

\* a comment is admitted while the subject has fewer than MaxComments rows
\* and its comment_count is at most 2 * MaxComments
MaxComments == 2

\* the groups, issues and callers of the membership and join-request
\* behaviours; u1 owns both groups, u3 owns nothing
JoinGroups == {"g1", "g2"}
JoinIssues == {"i1"}
\* the issues of the membership-counter behaviours
MemberIssues == {"i1", "i2", "i3"}
Actors == {"u1", "u2", "u3"}
\* the req_id values group_join_request rows can take
MaxJoinReqs == 2
JoinReqIds == 1..MaxJoinReqs

\* an issue_id and a group_id that no row has
AbsentIssue == "i0"
AbsentGroup == "g0"

\* the user_id of a token whose user has no row
AbsentUser == "u0"

\* the roles of the role-change behaviours and a role_id no row has
RoleIds == {"r1", "r2", "r3"}
MissingRole == "r0"
\* the req_id values role_change_request rows can take
MaxRoleReqs == 2
RoleReqSlots == 1..MaxRoleReqs

\* req.body.content: empty, blank, a word, a word after a blank
Contents == {<< >>, <<" ">>, <<"a">>, <<" ", "a">>}

NULL == "NULL"
\* a table without rows
NoRows == [x \in {} |-> NULL]
NoRes == [status |-> 0]

\* the rows an upvote table can hold: (subject, user, stored weight)
IssueUpvoteRows == [subject_id : Issues, user_id : Users, upvote_weight : Weights]
GroupUpvoteRows == [subject_id : Groups, user_id : Users, upvote_weight : Weights]

VARIABLES
  roles,                \* roles.upvote_weight per role_id
  users,                \* users.role_id per user_id
  role_change_request,  \* role_change_request rows per req_id
  issues,               \* issues rows per issue_id
  groups,               \* groups rows per group_id
  issue_upvotes,        \* issue_upvotes: how many rows of each content
  group_upvotes,        \* group_upvotes: how many rows of each content
  req,                  \* the handler invocations: position, locals, response
  hist,                 \* history: what each request found on arrival
  scope,                \* the kind of subject this behaviour's requests act on
  comments,             \* comments: how many rows per issue_id
  group_comments,       \* group_comments: how many rows per group_id
  group_join_request    \* group_join_request rows per req_id

vars == <<roles, users, role_change_request, issues, groups,
          issue_upvotes, group_upvotes, req, hist, scope,
          comments, group_comments, group_join_request>>

\* the tables the voting and role handlers never touch
rest == <<comments, group_comments, group_join_request>>

(* ------------------------------------------------------------------ *)
(* SQL helpers                                                        *)
(* ------------------------------------------------------------------ *)

GREATEST(a, b) == IF a >= b THEN a ELSE b

\* the distinct rows of table t WHERE subject = s AND user_id = u
Matching(t, s, u) ==
  {r \in DOMAIN t : r.subject_id = s /\ r.user_id = u /\ t[r] > 0}

\* table t after DELETE ... WHERE subject = s AND user_id = u
RemoveRows(t, s, u) ==
  [r \in DOMAIN t |-> IF r.subject_id = s /\ r.user_id = u THEN 0 ELSE t[r]]

\* table t after the INSERT of row r
InsertRow(t, r) == [t EXCEPT ![r] = @ + 1]

\* SELECT r.upvote_weight FROM users u JOIN roles r ON u.role_id = r.role_id
\* WHERE u.user_id = u: the weight, or 0 for an empty result
RoleWeightQuery(u) ==
  IF u \in DOMAIN users /\ users[u] \in DOMAIN roles THEN roles[users[u]] ELSE 0

\* userRoleResult.rows[0]?.upvote_weight || 1
EndpointWeight(u) ==
  LET w == RoleWeightQuery(u) IN IF w = 0 THEN 1 ELSE w

\* the w of the BEFORE INSERT triggers: the role weight, 1 when not found
TriggerWeight(u) ==
  LET w == RoleWeightQuery(u) IN IF w = 0 THEN 1 ELSE w

\* mutant: the table has no UNIQUE (subject, user_id) constraint
UniqueOkDropped(t, s, u) == TRUE

\* the UNIQUE (subject, user_id) constraint admits a new row
UniqueOk(t, s, u) == Matching(t, s, u) = {}

\* trg_issue_upvote_after_delete / trg_group_upvote_after_delete for one
\* deleted row: upvote_count = GREATEST(COALESCE(upvote_count, 0) - w, 0)
TrgUpvoteAfterDeleteRow(count, w) == GREATEST(count - w, 0)

RECURSIVE TrgRepeat(_, _, _)
\* the delete trigger for n deleted rows of weight w
TrgRepeat(count, w, n) ==
  IF n = 0 THEN count
  ELSE TrgRepeat(TrgUpvoteAfterDeleteRow(count, w), w, n - 1)

RECURSIVE TrgUpvoteAfterDelete(_, _, _)
\* the delete trigger, FOR EACH ROW of the deleted rows of table t
TrgUpvoteAfterDelete(count, t, rows) ==
  IF rows = {} THEN count
  ELSE LET r == CHOOSE x \in rows : TRUE
       IN TrgUpvoteAfterDelete(TrgRepeat(count, r.upvote_weight, t[r]),
                               t, rows \ {r})

\* trg_issue_upvote_after_insert / trg_group_upvote_after_insert:
\* upvote_count = COALESCE(upvote_count, 0) + w
TrgUpvoteAfterInsert(count, w) == count + w

\* the endpoint's own UPDATE issues SET upvote_count = upvote_count + $1
IssueEndpointIncrement(count, w) == count + w

\* the endpoint's own UPDATE issues SET upvote_count = GREATEST(upvote_count - $1, 0)
IssueEndpointDecrement(count, w) == GREATEST(count - w, 0)

\* the endpoint's own UPDATE groups SET upvote_count = upvote_count + 1
GroupEndpointIncrement(count) == count + 1

\* the endpoint's own UPDATE groups SET upvote_count = upvote_count - 1
GroupEndpointDecrement(count) == count - 1

(* ------------------------------------------------------------------ *)
(* Initial state: two users of role r1, one issue, one group, no      *)
(* votes, and u1's request for role r2 on file. The upvote handlers   *)
(* of issues and of groups share no table and no counter, so one      *)
(* behaviour exercises one of the two (scope) and TLC explores both.  *)
(* ------------------------------------------------------------------ *)

IdleReq ==
  [pc |-> "idle", kind |-> NULL, id |-> NULL, userId |-> NULL,
   upvoteWeight |-> 0, res |-> NoRes]

NoHist ==
  [startCount |-> 0, startStored |-> 0, startWeight |-> 0,
   last |-> FALSE, prev |-> FALSE]

Init ==
  /\ roles = [r \in Roles |-> 1]
  /\ users = [u \in Users |-> "r1"]
  /\ role_change_request = [id \in RoleReqIds |->
        [status |-> "pending", user_id |-> "u1", requested_role_id |-> "r2",
         reviewed |-> FALSE]]
  /\ issues = [i \in Issues |->
                 [upvote_count |-> 0, comment_count |-> 0,
                  group_id |-> NULL, user_id |-> "u1"]]
  /\ groups = [g \in Groups |->
                 [upvote_count |-> 0, comment_count |-> 0,
                  issue_count |-> 0, owner_id |-> "u2"]]
  /\ issue_upvotes = [r \in IssueUpvoteRows |-> 0]
  /\ group_upvotes = [r \in GroupUpvoteRows |-> 0]
  /\ req = [q \in Reqs |-> IdleReq]
  /\ hist = [q \in Reqs |-> NoHist]
  /\ scope \in {"issue", "group"}
  /\ comments = [i \in Issues |-> 0]
  /\ group_comments = [g \in Groups |-> 0]
  /\ group_join_request = NoRows

(* ------------------------------------------------------------------ *)
(* Reading the tables                                                 *)
(* ------------------------------------------------------------------ *)

UpvoteTable(kind) == IF kind = "issue" THEN issue_upvotes ELSE group_upvotes

UpvoteCount(kind, s) ==
  IF kind = "issue" THEN issues[s].upvote_count ELSE groups[s].upvote_count

\* the distinct Vote rows of (s, u)
VoteRows(kind, s, u) == Matching(UpvoteTable(kind), s, u)

\* the stored weight of the Vote of (s, u); 0 when there is none
StoredWeight(kind, s, u) ==
  LET rows == VoteRows(kind, s, u)
  IN IF rows = {} THEN 0 ELSE (CHOOSE r \in rows : TRUE).upvote_weight

InFlight(q) == req[q].pc \notin {"idle", "done"}

\* a new toggle request is admitted only on a subject of the behaviour's
\* kind and while the counter is within bounds
Admitted(kind, s, u) ==
  /\ scope = kind
  /\ s \in DOMAIN (IF kind = "issue" THEN issues ELSE groups) =>
       /\ UpvoteCount(kind, s) > 0 - MaxCount
       /\ UpvoteCount(kind, s) <=
             IF VoteRows(kind, s, u) = {}
             THEN MaxCount ELSE MaxCount + 2 * MaxWeight

\* request q arrives: req.params.id and req.user.userId are bound
Arrive(q, kind, s, u, pc, w) ==
  req' = [req EXCEPT ![q] =
            [pc |-> pc, kind |-> kind, id |-> s, userId |-> u,
             upvoteWeight |-> w, res |-> NoRes]]

(* ------------------------------------------------------------------ *)
(* POST /issues/:id/upvote                                            *)
(* ------------------------------------------------------------------ *)

\* const upvoteWeight = userRoleResult.rows[0]?.upvote_weight || 1
IssueUpvoteGetWeight(q, i, u) ==
  /\ req[q].pc = "idle"
  /\ Admitted("issue", i, u)
  /\ Arrive(q, "issue", i, u, "issue_check", EndpointWeight(u))
  /\ UNCHANGED <<roles, users, role_change_request, issues, groups,
                 issue_upvotes, group_upvotes>>
  /\ UNCHANGED <<scope, rest>>

\* SELECT upvote_id FROM issue_upvotes WHERE issue_id = $1 AND user_id = $2
IssueUpvoteCheck(q) ==
  /\ req[q].pc = "issue_check"
  /\ req' = [req EXCEPT ![q].pc =
               IF VoteRows("issue", req[q].id, req[q].userId) # {}
               THEN "issue_delete" ELSE "issue_insert"]
  /\ UNCHANGED <<roles, users, role_change_request, issues, groups,
                 issue_upvotes, group_upvotes>>
  /\ UNCHANGED <<hist, scope, rest>>

\* DELETE FROM issue_upvotes ...; trg_after_delete_issue_upvote per row
IssueUpvoteDelete(q) ==
  /\ req[q].pc = "issue_delete"
  /\ LET i == req[q].id
         deleted == VoteRows("issue", i, req[q].userId)
     IN /\ issue_upvotes' = RemoveRows(issue_upvotes, i, req[q].userId)
        /\ issues' = [issues EXCEPT ![i].upvote_count =
                        TrgUpvoteAfterDelete(@, issue_upvotes, deleted)]
  /\ req' = [req EXCEPT ![q].pc = "issue_dec"]
  /\ UNCHANGED <<roles, users, role_change_request, groups, group_upvotes>>
  /\ UNCHANGED <<hist, scope, rest>>

\* UPDATE issues SET upvote_count = GREATEST(upvote_count - $1, 0) RETURNING
IssueUpvoteDecrement(q) ==
  /\ req[q].pc = "issue_dec"
  /\ LET i == req[q].id
         n == IssueEndpointDecrement(issues[i].upvote_count, req[q].upvoteWeight)
     IN /\ issues' = [issues EXCEPT ![i].upvote_count = n]
        /\ req' = [req EXCEPT ![q].pc = "done",
                              ![q].res = [status |-> 200, upvoted |-> FALSE,
                                          upvote_count |-> n]]
  /\ UNCHANGED <<roles, users, role_change_request, groups,
                 issue_upvotes, group_upvotes>>
  /\ UNCHANGED <<hist, scope, rest>>

\* INSERT INTO issue_upvotes (issue_id, user_id); the BEFORE INSERT trigger
\* stores the weight and adds it; a unique violation, or a violation of the
\* foreign keys to issues and to users, undoes the statement and the catch
\* block answers 500
IssueUpvoteInsert(q) ==
  /\ req[q].pc = "issue_insert"
  /\ LET i == req[q].id
         u == req[q].userId
         w == TriggerWeight(u)
     IN IF /\ i \in DOMAIN issues
           /\ u \in DOMAIN users
           /\ UniqueOk(issue_upvotes, i, u)
        THEN /\ issue_upvotes' = InsertRow(issue_upvotes,
                  [subject_id |-> i, user_id |-> u, upvote_weight |-> w])
             /\ issues' = [issues EXCEPT ![i].upvote_count =
                             TrgUpvoteAfterInsert(@, w)]
             /\ req' = [req EXCEPT ![q].pc = "issue_inc"]
        ELSE /\ req' = [req EXCEPT ![q].pc = "done",
                                   ![q].res = [status |-> 500]]
             /\ UNCHANGED <<issues, issue_upvotes>>
  /\ UNCHANGED <<roles, users, role_change_request, groups, group_upvotes>>
  /\ UNCHANGED <<hist, scope, rest>>

\* UPDATE issues SET upvote_count = upvote_count + $1 RETURNING upvote_count
IssueUpvoteIncrement(q) ==
  /\ req[q].pc = "issue_inc"
  /\ LET i == req[q].id
         n == IssueEndpointIncrement(issues[i].upvote_count, req[q].upvoteWeight)
     IN /\ issues' = [issues EXCEPT ![i].upvote_count = n]
        /\ req' = [req EXCEPT ![q].pc = "done",
                              ![q].res = [status |-> 200, upvoted |-> TRUE,
                                          upvote_count |-> n]]
  /\ UNCHANGED <<roles, users, role_change_request, groups,
                 issue_upvotes, group_upvotes>>
  /\ UNCHANGED <<hist, scope, rest>>

(* ------------------------------------------------------------------ *)
(* POST /groups/:id/upvote                                            *)
(* ------------------------------------------------------------------ *)

\* SELECT group_upvote_id FROM group_upvotes WHERE group_id = $1 AND user_id = $2
GroupUpvoteCheck(q, g, u) ==
  /\ req[q].pc = "idle"
  /\ Admitted("group", g, u)
  /\ Arrive(q, "group", g, u,
            IF VoteRows("group", g, u) # {}
            THEN "group_delete" ELSE "group_insert", 0)
  /\ UNCHANGED <<roles, users, role_change_request, issues, groups,
                 issue_upvotes, group_upvotes>>
  /\ UNCHANGED <<scope, rest>>

\* DELETE FROM group_upvotes ...; trg_after_delete_group_upvote per row
GroupUpvoteDelete(q) ==
  /\ req[q].pc = "group_delete"
  /\ LET g == req[q].id
         deleted == VoteRows("group", g, req[q].userId)
     IN /\ group_upvotes' = RemoveRows(group_upvotes, g, req[q].userId)
        /\ groups' = [groups EXCEPT ![g].upvote_count =
                        TrgUpvoteAfterDelete(@, group_upvotes, deleted)]
  /\ req' = [req EXCEPT ![q].pc = "group_dec"]
  /\ UNCHANGED <<roles, users, role_change_request, issues, issue_upvotes>>
  /\ UNCHANGED <<hist, scope, rest>>

\* UPDATE groups SET upvote_count = upvote_count - 1 RETURNING upvote_count
GroupUpvoteDecrement(q) ==
  /\ req[q].pc = "group_dec"
  /\ LET g == req[q].id
         n == GroupEndpointDecrement(groups[g].upvote_count)
     IN /\ groups' = [groups EXCEPT ![g].upvote_count = n]
        /\ req' = [req EXCEPT ![q].pc = "done",
                              ![q].res = [status |-> 200, upvoted |-> FALSE,
                                          upvote_count |-> n]]
  /\ UNCHANGED <<roles, users, role_change_request, issues,
                 issue_upvotes, group_upvotes>>
  /\ UNCHANGED <<hist, scope, rest>>

\* INSERT INTO group_upvotes (group_id, user_id); BEFORE INSERT trigger; a
\* unique or foreign-key violation undoes the statement and answers 500
GroupUpvoteInsert(q) ==
  /\ req[q].pc = "group_insert"
  /\ LET g == req[q].id
         u == req[q].userId
         w == TriggerWeight(u)
     IN IF /\ g \in DOMAIN groups
           /\ u \in DOMAIN users
           /\ UniqueOk(group_upvotes, g, u)
        THEN /\ group_upvotes' = InsertRow(group_upvotes,
                  [subject_id |-> g, user_id |-> u, upvote_weight |-> w])
             /\ groups' = [groups EXCEPT ![g].upvote_count =
                             TrgUpvoteAfterInsert(@, w)]
             /\ req' = [req EXCEPT ![q].pc = "group_inc"]
        ELSE /\ req' = [req EXCEPT ![q].pc = "done",
                                   ![q].res = [status |-> 500]]
             /\ UNCHANGED <<groups, group_upvotes>>
  /\ UNCHANGED <<roles, users, role_change_request, issues, issue_upvotes>>
  /\ UNCHANGED <<hist, scope, rest>>

\* UPDATE groups SET upvote_count = upvote_count + 1 RETURNING upvote_count
GroupUpvoteIncrement(q) ==
  /\ req[q].pc = "group_inc"
  /\ LET g == req[q].id
         n == GroupEndpointIncrement(groups[g].upvote_count)
     IN /\ groups' = [groups EXCEPT ![g].upvote_count = n]
        /\ req' = [req EXCEPT ![q].pc = "done",
                              ![q].res = [status |-> 200, upvoted |-> TRUE,
                                          upvote_count |-> n]]
  /\ UNCHANGED <<roles, users, role_change_request, issues,
                 issue_upvotes, group_upvotes>>
  /\ UNCHANGED <<hist, scope, rest>>

(* ------------------------------------------------------------------ *)
(* The response is sent: res.json(...) / res.status(500).json(...)    *)
(* ------------------------------------------------------------------ *)

Respond(q) ==
  /\ req[q].pc = "done"
  /\ req' = [req EXCEPT ![q] = IdleReq]
  /\ UNCHANGED <<roles, users, role_change_request, issues, groups,
                 issue_upvotes, group_upvotes>>
  /\ UNCHANGED <<hist, scope, rest>>

\* the answers of a batch of requests are sent together
RespondAll ==
  /\ \E q \in Reqs : req[q].pc = "done"
  /\ \A q \in Reqs : ~InFlight(q)
  /\ req' = [q \in Reqs |-> IdleReq]
  /\ UNCHANGED <<roles, users, role_change_request, issues, groups,
                 issue_upvotes, group_upvotes>>
  /\ UNCHANGED <<hist, scope, rest>>

(* ------------------------------------------------------------------ *)
(* Roles                                                              *)
(* ------------------------------------------------------------------ *)

\* table t with the votes of the holders of role r stamped again with weight w
Restamp(t, r, w) ==
  [x \in DOMAIN t |->
     IF users[x.user_id] # r THEN t[x]
     ELSE IF x.upvote_weight = w /\ Matching(t, x.subject_id, x.user_id) # {}
          THEN 1 ELSE 0]

\* mutant: the new weight of the role is also written on the votes its
\* holders have cast
UpdateRoleRestamps(r, w) ==
  /\ w >= 1
  /\ roles[r] # w
  /\ roles' = [roles EXCEPT ![r] = w]
  /\ issue_upvotes' = Restamp(issue_upvotes, r, w)
  /\ group_upvotes' = Restamp(group_upvotes, r, w)
  /\ UNCHANGED <<users, role_change_request, issues, groups, req>>
  /\ UNCHANGED <<hist, scope, rest>>

\* PUT /admin/roles/:id with upvote_weight: a positive integer
UpdateRole(r, w) ==
  /\ w >= 1
  /\ roles[r] # w
  /\ roles' = [roles EXCEPT ![r] = w]
  /\ UNCHANGED <<users, role_change_request, issues, groups,
                 issue_upvotes, group_upvotes, req>>
  /\ UNCHANGED <<hist, scope, rest>>

\* mutant: the request is read from role_change_request, whatever its status
ProcessAnyRoleChangeRequest(id, status) ==
  /\ role_change_request' = [role_change_request EXCEPT
        ![id].status = status, ![id].reviewed = TRUE]
  /\ users' = IF status = "approved"
              THEN [users EXCEPT ![role_change_request[id].user_id] =
                      role_change_request[id].requested_role_id]
              ELSE users
  /\ UNCHANGED <<roles, issues, groups, issue_upvotes, group_upvotes, req>>
  /\ UNCHANGED <<hist, scope, rest>>

\* process_role_change_request(p_req_id, p_status)
ProcessRoleChangeRequest(id, status) ==
  /\ role_change_request[id].status = "pending"
  /\ role_change_request' = [role_change_request EXCEPT
        ![id].status = status, ![id].reviewed = TRUE]
  /\ users' = IF status = "approved"
              THEN [users EXCEPT ![role_change_request[id].user_id] =
                      role_change_request[id].requested_role_id]
              ELSE users
  /\ UNCHANGED <<roles, issues, groups, issue_upvotes, group_upvotes, req>>
  /\ UNCHANGED <<hist, scope, rest>>

(* ------------------------------------------------------------------ *)
(* Comments: POST /issues/:id/comments, POST /groups/:id/comments and  *)
(* the row triggers of comments and group_comments                     *)
(* ------------------------------------------------------------------ *)

RECURSIVE TrimStart(_)
\* String.prototype.trim, leading part
TrimStart(c) ==
  IF c # << >> /\ Head(c) = " " THEN TrimStart(Tail(c)) ELSE c

RECURSIVE TrimEnd(_)
\* String.prototype.trim, trailing part
TrimEnd(c) ==
  IF c # << >> /\ c[Len(c)] = " " THEN TrimEnd(SubSeq(c, 1, Len(c) - 1)) ELSE c

Trim(c) == TrimEnd(TrimStart(c))

\* mutant: only the empty content is refused, the content is not trimmed
ContentMissingUntrimmed(content) == content = << >>

\* if (!content || content.trim().length === 0) return 400
ContentMissing(content) == content = << >> \/ Len(Trim(content)) = 0

\* trg_inc_issue_comment_count, trg_inc_group_comment_count
TrgIncCommentCount(count) == count + 1

\* trg_dec_issue_comment_count, trg_dec_group_comment_count
TrgDecCommentCount(count) == GREATEST(count - 1, 0)

\* UPDATE ... SET comment_count = comment_count + 1
EndpointCommentCount(count) == count + 1

CommentTable(kind) == IF kind = "issue" THEN comments ELSE group_comments

CommentCount(kind, s) ==
  IF kind = "issue" THEN issues[s].comment_count ELSE groups[s].comment_count

\* history: the subject's comment_count and number of comments that request q
\* finds on arrival, and the content it sends
RecordComment(q, kind, s, content) ==
  hist' = [p \in Reqs |->
     IF p = q
     THEN [startCount |-> CommentCount(kind, s),
           startRows |-> CommentTable(kind)[s],
           content |-> content,
           last |-> TRUE]
     ELSE [hist[p] EXCEPT !.last = FALSE]]

\* POST /issues/:id/comments: validation, then INSERT INTO comments, which
\* fires trg_after_insert_comment
IssueCommentInsert(q, i, u, content) ==
  /\ req[q].pc = "idle"
  /\ scope = "issue"
  /\ comments[i] < MaxComments
  /\ issues[i].comment_count <= 2 * MaxComments
  /\ RecordComment(q, "issue", i, content)
  /\ IF ContentMissing(content)
     THEN /\ req' = [req EXCEPT ![q] =
                [pc |-> "done", kind |-> "issue", id |-> i, userId |-> u,
                 upvoteWeight |-> 0, res |-> [status |-> 400]]]
          /\ UNCHANGED <<comments, issues>>
     ELSE /\ Arrive(q, "issue", i, u, "issue_comment_user", 0)
          /\ comments' = [comments EXCEPT ![i] = @ + 1]
          /\ issues' = [issues EXCEPT ![i].comment_count =
                          TrgIncCommentCount(@)]
  /\ UNCHANGED <<roles, users, role_change_request, groups, issue_upvotes,
                 group_upvotes, scope, group_comments, group_join_request>>

\* SELECT username, full_name FROM users WHERE user_id = $1
IssueCommentGetUser(q) ==
  /\ req[q].pc = "issue_comment_user"
  /\ req' = [req EXCEPT ![q].pc = "issue_comment_count"]
  /\ UNCHANGED <<roles, users, role_change_request, issues, groups,
                 issue_upvotes, group_upvotes, hist, scope, rest>>

\* UPDATE issues SET comment_count = comment_count + 1, then 201
IssueCommentCount(q) ==
  /\ req[q].pc = "issue_comment_count"
  /\ issues' = [issues EXCEPT ![req[q].id].comment_count =
                  EndpointCommentCount(@)]
  /\ req' = [req EXCEPT ![q].pc = "done", ![q].res = [status |-> 201]]
  /\ UNCHANGED <<roles, users, role_change_request, groups,
                 issue_upvotes, group_upvotes, hist, scope, rest>>

\* POST /groups/:id/comments: validation, then INSERT INTO group_comments,
\* which fires trg_after_insert_group_comment
GroupCommentInsert(q, g, u, content) ==
  /\ req[q].pc = "idle"
  /\ scope = "group"
  /\ group_comments[g] < MaxComments
  /\ groups[g].comment_count <= 2 * MaxComments
  /\ RecordComment(q, "group", g, content)
  /\ IF ContentMissing(content)
     THEN /\ req' = [req EXCEPT ![q] =
                [pc |-> "done", kind |-> "group", id |-> g, userId |-> u,
                 upvoteWeight |-> 0, res |-> [status |-> 400]]]
          /\ UNCHANGED <<group_comments, groups>>
     ELSE /\ Arrive(q, "group", g, u, "group_comment_user", 0)
          /\ group_comments' = [group_comments EXCEPT ![g] = @ + 1]
          /\ groups' = [groups EXCEPT ![g].comment_count =
                          TrgIncCommentCount(@)]
  /\ UNCHANGED <<roles, users, role_change_request, issues, issue_upvotes,
                 group_upvotes, scope, comments, group_join_request>>

\* SELECT username, full_name FROM users WHERE user_id = $1
GroupCommentGetUser(q) ==
  /\ req[q].pc = "group_comment_user"
  /\ req' = [req EXCEPT ![q].pc = "group_comment_count"]
  /\ UNCHANGED <<roles, users, role_change_request, issues, groups,
                 issue_upvotes, group_upvotes, hist, scope, rest>>

\* UPDATE groups SET comment_count = comment_count + 1, then 201
GroupCommentCount(q) ==
  /\ req[q].pc = "group_comment_count"
  /\ groups' = [groups EXCEPT ![req[q].id].comment_count =
                  EndpointCommentCount(@)]
  /\ req' = [req EXCEPT ![q].pc = "done", ![q].res = [status |-> 201]]
  /\ UNCHANGED <<roles, users, role_change_request, issues,
                 issue_upvotes, group_upvotes, hist, scope, rest>>

\* DELETE of one row of comments, which fires trg_after_delete_comment
DeleteIssueComment(i) ==
  /\ scope = "issue"
  /\ comments[i] > 0
  /\ comments' = [comments EXCEPT ![i] = @ - 1]
  /\ issues' = [issues EXCEPT ![i].comment_count = TrgDecCommentCount(@)]
  /\ UNCHANGED <<roles, users, role_change_request, groups, issue_upvotes,
                 group_upvotes, req, hist, scope, group_comments,
                 group_join_request>>

\* DELETE of one row of group_comments, which fires
\* trg_after_delete_group_comment
DeleteGroupComment(g) ==
  /\ scope = "group"
  /\ group_comments[g] > 0
  /\ group_comments' = [group_comments EXCEPT ![g] = @ - 1]
  /\ groups' = [groups EXCEPT ![g].comment_count = TrgDecCommentCount(@)]
  /\ UNCHANGED <<roles, users, role_change_request, issues, issue_upvotes,
                 group_upvotes, req, hist, scope, comments,
                 group_join_request>>

(* ------------------------------------------------------------------ *)
(* Group membership: the issues table, its row triggers and the        *)
(* group_join_request table                                            *)
(* ------------------------------------------------------------------ *)

\* the initial state of the membership behaviours: the groups gs, all of u1,
\* no issue and no join request
InitGroups(gs) ==
  /\ roles = [r \in Roles |-> 1]
  /\ users = [u \in Users |-> "r1"]
  /\ role_change_request = [id \in RoleReqIds |->
        [status |-> "pending", user_id |-> "u1", requested_role_id |-> "r2",
         reviewed |-> FALSE]]
  /\ issues = NoRows
  /\ groups = [g \in gs |->
                 [upvote_count |-> 0, comment_count |-> 0,
                  issue_count |-> 0, owner_id |-> "u1"]]
  /\ issue_upvotes = [r \in IssueUpvoteRows |-> 0]
  /\ group_upvotes = [r \in GroupUpvoteRows |-> 0]
  /\ req = [q \in Reqs |-> IdleReq]
  /\ hist = [q \in Reqs |-> NoHist]
  /\ scope = "join"
  /\ comments = [i \in Issues |-> 0]
  /\ group_comments = [g \in Groups |-> 0]
  /\ group_join_request = NoRows

\* mutant: an inserted issue is not counted
TrgInsertCountsNothing(gs, new) == gs

\* mutant: a moved issue is counted in its new group and stays counted in
\* the old one
TrgUpdateIncrementOnly(gs, old, new) ==
  IF new # NULL THEN [gs EXCEPT ![new].issue_count = @ + 1] ELSE gs

\* trg_inc_group_issue_count_on_insert: NEW.group_id's count + 1
TrgIncGroupIssueCountOnInsert(gs, new) ==
  IF new # NULL THEN [gs EXCEPT ![new].issue_count = @ + 1] ELSE gs

\* trg_delete_issue_group_count: OLD.group_id's count - 1, floored at 0
TrgDeleteIssueGroupCount(gs, old) ==
  IF old # NULL THEN [gs EXCEPT ![old].issue_count = GREATEST(@ - 1, 0)]
  ELSE gs

\* trg_update_issue_group_count: the old group's count - 1 floored at 0, then
\* the new group's count + 1
TrgUpdateIssueGroupCount(gs, old, new) ==
  LET dec == IF old # NULL
             THEN [gs EXCEPT ![old].issue_count = GREATEST(@ - 1, 0)]
             ELSE gs
  IN IF new # NULL THEN [dec EXCEPT ![new].issue_count = @ + 1] ELSE dec

\* mutant: the update trigger never fires, the counts are left for later
UpdateGroupNeverFires(old, new) == FALSE

\* trg_issue_update_group_count fires
\* WHEN (old.group_id IS DISTINCT FROM new.group_id)
UpdateGroupFires(old, new) == old # new

\* UPDATE issues SET group_id = $1 WHERE issue_id = $2, with its trigger: the
\* new <<issues, groups>>; no row is touched when the issue is gone
UpdateIssueGroup(i, g) ==
  IF i \notin DOMAIN issues THEN <<issues, groups>>
  ELSE <<[issues EXCEPT ![i].group_id = g],
         IF UpdateGroupFires(issues[i].group_id, g)
         THEN TrgUpdateIssueGroupCount(groups, issues[i].group_id, g)
         ELSE groups>>

\* the rows that stay in t when those of the ids in gone are removed
Without(t, gone) == [x \in DOMAIN t \ gone |-> t[x]]

\* POST /issues: INSERT INTO issues (..., user_id, group_id, ...) with
\* group_id || null, which fires trg_issue_insert_group_count
CreateIssue(i, u, g) ==
  /\ scope = "join"
  /\ i \notin DOMAIN issues
  /\ issues' = [x \in DOMAIN issues \cup {i} |->
                  IF x = i
                  THEN [upvote_count |-> 0, comment_count |-> 0,
                        group_id |-> g, user_id |-> u]
                  ELSE issues[x]]
  /\ groups' = TrgIncGroupIssueCountOnInsert(groups, g)
  /\ UNCHANGED <<roles, users, role_change_request, issue_upvotes,
                 group_upvotes, req, scope, rest>>

\* DELETE FROM issues WHERE issue_id = $1, which fires
\* trg_issue_delete_group_count and cascades to the issue's join requests
DeleteIssue(i) ==
  /\ scope = "join"
  /\ i \in DOMAIN issues
  /\ issues' = Without(issues, {i})
  /\ groups' = TrgDeleteIssueGroupCount(groups, issues[i].group_id)
  /\ group_join_request' =
       Without(group_join_request,
               {id \in DOMAIN group_join_request :
                  group_join_request[id].issue_id = i})
  /\ UNCHANGED <<roles, users, role_change_request, issue_upvotes,
                 group_upvotes, req, scope, comments, group_comments>>

\* ReassignIssueGroup: UPDATE issues SET group_id = $1 WHERE issue_id = $2,
\* which fires trg_issue_update_group_count when the group differs
ReassignIssueGroup(i, g) ==
  /\ scope = "join"
  /\ i \in DOMAIN issues
  /\ issues' = UpdateIssueGroup(i, g)[1]
  /\ groups' = UpdateIssueGroup(i, g)[2]
  /\ UNCHANGED <<roles, users, role_change_request, issue_upvotes,
                 group_upvotes, req, scope, rest>>

(* ------------------------------------------------------------------ *)
(* POST /group-join-requests                                           *)
(* ------------------------------------------------------------------ *)

\* handled_at = NOW(): 0 is NULL, 1 the first stamp, 2 any later one
Now(handled_at) == IF handled_at = 0 THEN 1 ELSE 2

\* mutant: group_join_request has no UNIQUE (issue_id, group_id) constraint
JoinUniqueDropped(i, g) == TRUE

\* CONSTRAINT group_join_request_issue_id_group_id_key UNIQUE (issue_id, group_id)
JoinUniqueOk(i, g) ==
  \A id \in DOMAIN group_join_request :
    ~(group_join_request[id].issue_id = i /\ group_join_request[id].group_id = g)

\* SELECT req_id FROM group_join_request
\* WHERE issue_id = $1 AND group_id = $2 AND status = 'pending'
PendingRequests(i, g) ==
  {id \in DOMAIN group_join_request :
     /\ group_join_request[id].issue_id = i
     /\ group_join_request[id].group_id = g
     /\ group_join_request[id].status = "pending"}

\* req_id DEFAULT gen_random_uuid(): an id no row has
FreeReqIds == JoinReqIds \ DOMAIN group_join_request

NewReqId == CHOOSE id \in FreeReqIds : \A o \in FreeReqIds : id <= o

\* INSERT INTO group_join_request ... RETURNING: the table with the new row
InsertJoinRequest(row) ==
  [id \in DOMAIN group_join_request \cup {NewReqId} |->
     IF id = NewReqId THEN row ELSE group_join_request[id]]

\* the handler has answered with res
Done(res) == [pc |-> "done", res |-> res]

\* the locals of a join-request handler
JoinReq(pc, kind, i, g, byGroup, id, status) ==
  [pc |-> pc, kind |-> kind, issue_id |-> i, group_id |-> g,
   requested_by_group |-> byGroup, id |-> id, status |-> status,
   res |-> NoRes]

\* mutant: the request is received and the caller is not authorized
SubmitUnauthorized(q, i, g, byGroup, u) ==
  /\ req[q].pc = "idle"
  /\ scope = "join"
  /\ LET err(code) == Done([status |-> code])
     IN req' = [req EXCEPT ![q] =
          IF g = NULL THEN err(400)
          ELSE IF i \notin DOMAIN issues THEN err(404)
          ELSE JoinReq("join_link", "submit", i, g, byGroup, NULL,
                       IF groups[g].owner_id = issues[i].user_id
                          /\ groups[g].owner_id = u
                       THEN "approved" ELSE "pending")]
  /\ UNCHANGED <<roles, users, role_change_request, issues, groups,
                 issue_upvotes, group_upvotes, scope, rest>>

\* mutant: the auto-accept flow is taken whenever the caller owns the group
SubmitAutoForGroupOwner(q, i, g, byGroup, u) ==
  /\ req[q].pc = "idle"
  /\ scope = "join"
  /\ LET err(code) == Done([status |-> code])
     IN req' = [req EXCEPT ![q] =
          IF g = NULL THEN err(400)
          ELSE IF i \notin DOMAIN issues THEN err(404)
          ELSE IF byGroup /\ groups[g].owner_id # u THEN err(403)
          ELSE IF ~byGroup /\ issues[i].user_id # u THEN err(403)
          ELSE JoinReq("join_link", "submit", i, g, byGroup, NULL,
                       IF groups[g].owner_id = u
                       THEN "approved" ELSE "pending")]
  /\ UNCHANGED <<roles, users, role_change_request, issues, groups,
                 issue_upvotes, group_upvotes, scope, rest>>

\* the request is received: the body is validated, issueCheck and groupCheck
\* are read and the caller is authorized
SubmitJoinRequest(q, i, g, byGroup, u) ==
  /\ req[q].pc = "idle"
  /\ scope = "join"
  /\ LET err(code) == Done([status |-> code])
     IN req' = [req EXCEPT ![q] =
          IF g = NULL THEN err(400)
          ELSE IF i \notin DOMAIN issues THEN err(404)
          ELSE IF byGroup /\ groups[g].owner_id # u THEN err(403)
          ELSE IF ~byGroup /\ issues[i].user_id # u THEN err(403)
          ELSE JoinReq("join_link", "submit", i, g, byGroup, NULL,
                       IF groups[g].owner_id = issues[i].user_id
                          /\ groups[g].owner_id = u
                       THEN "approved" ELSE "pending")]
  /\ UNCHANGED <<roles, users, role_change_request, issues, groups,
                 issue_upvotes, group_upvotes, scope, rest>>

\* mutant: the handler does not look whether the issue is in the group
JoinCheckLinkSkipped(q) ==
  /\ req[q].pc = "join_link"
  /\ req' = [req EXCEPT ![q].pc = "join_pending"]
  /\ UNCHANGED <<roles, users, role_change_request, issues, groups,
                 issue_upvotes, group_upvotes, hist, scope, rest>>

\* SELECT 1 FROM issues WHERE issue_id = $1 AND group_id = $2
JoinCheckLink(q) ==
  /\ req[q].pc = "join_link"
  /\ req' = [req EXCEPT ![q] =
       IF /\ req[q].issue_id \in DOMAIN issues
          /\ issues[req[q].issue_id].group_id = req[q].group_id
       THEN Done([status |-> 400])
       ELSE [@ EXCEPT !.pc = "join_pending"]]
  /\ UNCHANGED <<roles, users, role_change_request, issues, groups,
                 issue_upvotes, group_upvotes, hist, scope, rest>>

\* the pending check, then the choice of the auto-accept or the normal flow
JoinCheckPending(q) ==
  /\ req[q].pc = "join_pending"
  /\ req' = [req EXCEPT ![q] =
       IF PendingRequests(req[q].issue_id, req[q].group_id) # {}
       THEN Done([status |-> 400])
       ELSE IF req[q].status = "approved"
       THEN [@ EXCEPT !.pc = "join_auto_update"]
       ELSE [@ EXCEPT !.pc = "join_insert"]]
  /\ UNCHANGED <<roles, users, role_change_request, issues, groups,
                 issue_upvotes, group_upvotes, hist, scope, rest>>

\* auto-accept: UPDATE issues SET group_id = $1 WHERE issue_id = $2
JoinAutoUpdate(q) ==
  /\ req[q].pc = "join_auto_update"
  /\ issues' = UpdateIssueGroup(req[q].issue_id, req[q].group_id)[1]
  /\ groups' = UpdateIssueGroup(req[q].issue_id, req[q].group_id)[2]
  /\ req' = [req EXCEPT ![q].pc = "join_insert"]
  /\ UNCHANGED <<roles, users, role_change_request,
                 issue_upvotes, group_upvotes, hist, scope, rest>>

\* INSERT INTO group_join_request: 'approved' with handled_at = NOW() in the
\* auto-accept flow, 'pending' otherwise; 201 with the row, or 500 when the
\* foreign key or the UNIQUE constraint refuses it
JoinInsert(q) ==
  /\ req[q].pc = "join_insert"
  /\ LET row == [issue_id |-> req[q].issue_id, group_id |-> req[q].group_id,
                 requested_by_group |-> req[q].requested_by_group,
                 status |-> req[q].status,
                 handled_at |-> IF req[q].status = "approved"
                                THEN Now(0) ELSE 0]
     IN IF /\ req[q].issue_id \in DOMAIN issues
           /\ JoinUniqueOk(req[q].issue_id, req[q].group_id)
        THEN /\ FreeReqIds # {}
             /\ group_join_request' = InsertJoinRequest(row)
             /\ req' = [req EXCEPT ![q] =
                          Done([status |-> 201, req_id |-> NewReqId,
                                request |-> row])]
        ELSE /\ UNCHANGED group_join_request
             /\ req' = [req EXCEPT ![q] = Done([status |-> 500])]
  /\ UNCHANGED <<roles, users, role_change_request, issues, groups,
                 issue_upvotes, group_upvotes, hist, scope,
                 comments, group_comments>>

(* ------------------------------------------------------------------ *)
(* PUT and DELETE /group-join-requests/:id, process_group_join_request *)
(* ------------------------------------------------------------------ *)

\* mutant: the status is written and handled_at is left as it was
StampStatusOnly(id, status) ==
  IF id \in DOMAIN group_join_request
  THEN [group_join_request EXCEPT ![id].status = status]
  ELSE group_join_request

\* UPDATE group_join_request SET status = $1, handled_at = NOW()
\* WHERE req_id = $2: no row is touched when the request is gone
StampJoinRequest(id, status) ==
  IF id \in DOMAIN group_join_request
  THEN [group_join_request EXCEPT ![id].status = status,
                                  ![id].handled_at = Now(@)]
  ELSE group_join_request

\* mutant: whoever asks may act on a request
CanActAnyone(request, u) == TRUE

\* canAct: the issue owner acts on a request of the group, the group owner
\* on a request of the issue
CanAct(request, u) ==
  IF request.requested_by_group
  THEN issues[request.issue_id].user_id = u
  ELSE groups[request.group_id].owner_id = u

\* canCancel: the side that made the request
CanCancel(request, u) ==
  IF request.requested_by_group
  THEN groups[request.group_id].owner_id = u
  ELSE issues[request.issue_id].user_id = u

\* PUT /group-join-requests/:id is received: the status is validated, the
\* request is read, and its state and the caller's right are checked
DecideJoinRequest(q, id, status, u) ==
  /\ req[q].pc = "idle"
  /\ scope = "join"
  /\ LET err(code) == Done([status |-> code])
         request == group_join_request[id]
     IN req' = [req EXCEPT ![q] =
          IF status \notin {"accepted", "declined"} THEN err(400)
          ELSE IF id \notin DOMAIN group_join_request THEN err(404)
          ELSE IF request.status # "pending" THEN err(400)
          ELSE IF ~CanAct(request, u) THEN err(403)
          ELSE JoinReq("decide_update", "decide", request.issue_id,
                       request.group_id, request.requested_by_group, id,
                       status)]
  /\ UNCHANGED <<roles, users, role_change_request, issues, groups,
                 issue_upvotes, group_upvotes, scope, rest>>

\* UPDATE group_join_request SET status = $1, handled_at = NOW()
DecideUpdate(q) ==
  /\ req[q].pc = "decide_update"
  /\ group_join_request' = StampJoinRequest(req[q].id, req[q].status)
  /\ req' = [req EXCEPT ![q] =
       IF req[q].status = "accepted"
       THEN [@ EXCEPT !.pc = "decide_link"]
       ELSE Done([status |-> 200, request_id |-> req[q].id])]
  /\ UNCHANGED <<roles, users, role_change_request, issues, groups,
                 issue_upvotes, group_upvotes, hist, scope,
                 comments, group_comments>>

\* if accepted: UPDATE issues SET group_id = $1 WHERE issue_id = $2
DecideLink(q) ==
  /\ req[q].pc = "decide_link"
  /\ issues' = UpdateIssueGroup(req[q].issue_id, req[q].group_id)[1]
  /\ groups' = UpdateIssueGroup(req[q].issue_id, req[q].group_id)[2]
  /\ req' = [req EXCEPT ![q] =
               Done([status |-> 200, request_id |-> req[q].id])]
  /\ UNCHANGED <<roles, users, role_change_request,
                 issue_upvotes, group_upvotes, hist, scope, rest>>

\* DELETE /group-join-requests/:id is received: the request is read, and its
\* state and the caller's right are checked
CancelJoinRequest(q, id, u) ==
  /\ req[q].pc = "idle"
  /\ scope = "join"
  /\ LET err(code) == Done([status |-> code])
         request == group_join_request[id]
     IN req' = [req EXCEPT ![q] =
          IF id \notin DOMAIN group_join_request THEN err(404)
          ELSE IF request.status # "pending" THEN err(400)
          ELSE IF ~CanCancel(request, u) THEN err(403)
          ELSE JoinReq("cancel_update", "cancel", request.issue_id,
                       request.group_id, request.requested_by_group, id,
                       "cancelled")]
  /\ UNCHANGED <<roles, users, role_change_request, issues, groups,
                 issue_upvotes, group_upvotes, scope, rest>>

\* UPDATE group_join_request SET status = 'cancelled', handled_at = NOW()
CancelUpdate(q) ==
  /\ req[q].pc = "cancel_update"
  /\ group_join_request' = StampJoinRequest(req[q].id, "cancelled")
  /\ req' = [req EXCEPT ![q] =
               Done([status |-> 200, request_id |-> req[q].id])]
  /\ UNCHANGED <<roles, users, role_change_request, issues, groups,
                 issue_upvotes, group_upvotes, hist, scope,
                 comments, group_comments>>

\* the statements of process_group_join_request on a stored request: the
\* status and handled_at are written whatever the status was, and for
\* 'approved' the issue is put in the group
ProcessTables(id, status) ==
  /\ group_join_request' = StampJoinRequest(id, status)
  /\ LET i == group_join_request[id].issue_id
         g == group_join_request[id].group_id
     IN IF status = "approved"
        THEN /\ issues' = UpdateIssueGroup(i, g)[1]
             /\ groups' = UpdateIssueGroup(i, g)[2]
        ELSE UNCHANGED <<issues, groups>>

\* CALL process_group_join_request(p_req_id, p_status): one transaction
ProcessGroupJoinRequest(id, status) ==
  /\ scope = "join"
  /\ id \in DOMAIN group_join_request
  /\ ProcessTables(id, status)
  /\ UNCHANGED <<roles, users, role_change_request, issue_upvotes,
                 group_upvotes, req, hist, scope, comments, group_comments>>

\* CALL process_group_join_request by the caller q, who keeps the outcome:
\* 200 when the procedure returns, 404 when it raises 'Request not found'
CallProcess(q, id, status) ==
  /\ req[q].pc = "idle"
  /\ scope = "join"
  /\ IF id \in DOMAIN group_join_request
     THEN /\ ProcessTables(id, status)
          /\ req' = [req EXCEPT ![q] = Done([status |-> 200])]
     ELSE /\ UNCHANGED <<group_join_request, issues, groups>>
          /\ req' = [req EXCEPT ![q] = Done([status |-> 404])]
  /\ UNCHANGED <<roles, users, role_change_request, issue_upvotes,
                 group_upvotes, scope, comments, group_comments>>

\* the statements of cancel_group_join_request on a stored request for the
\* performer u: the issue author and the group owner are admitted, and the
\* status is written whatever it was
CancelTables(id, u) ==
  LET request == group_join_request[id]
  IN /\ request.issue_id \in DOMAIN issues
     /\ \/ issues[request.issue_id].user_id = u
        \/ groups[request.group_id].owner_id = u
     /\ group_join_request' = StampJoinRequest(id, "cancelled")

\* CALL cancel_group_join_request(p_req_id, p_performer_user_id): one
\* transaction; a call that raises changes nothing
CancelGroupJoinRequest(id, u) ==
  /\ scope = "join"
  /\ id \in DOMAIN group_join_request
  /\ CancelTables(id, u)
  /\ UNCHANGED <<roles, users, role_change_request, issues, groups,
                 issue_upvotes, group_upvotes, req, hist, scope,
                 comments, group_comments>>

\* CALL cancel_group_join_request by the caller q, who keeps the outcome:
\* 200 when it returns, 404 when it raises 'not found', 403 when it raises
\* 'not authorized'
CallCancel(q, id, u) ==
  /\ req[q].pc = "idle"
  /\ scope = "join"
  /\ IF id \notin DOMAIN group_join_request
     THEN /\ UNCHANGED group_join_request
          /\ req' = [req EXCEPT ![q] = Done([status |-> 404])]
     ELSE IF ENABLED CancelTables(id, u)
     THEN /\ CancelTables(id, u)
          /\ req' = [req EXCEPT ![q] = Done([status |-> 200])]
     ELSE /\ UNCHANGED group_join_request
          /\ req' = [req EXCEPT ![q] = Done([status |-> 403])]
  /\ UNCHANGED <<roles, users, role_change_request, issues, groups,
                 issue_upvotes, group_upvotes, scope,
                 comments, group_comments>>

(* ------------------------------------------------------------------ *)
(* Role-change requests: POST /role-change-request,                    *)
(* POST /role-change-requests, PUT /admin/role-requests/:id            *)
(* ------------------------------------------------------------------ *)

\* the initial state of the role-change behaviours: every user has role r1
\* and no request is stored
InitRole ==
  /\ roles = [r \in RoleIds |-> 1]
  /\ users = [u \in Users |-> "r1"]
  /\ role_change_request = NoRows
  /\ issues = NoRows
  /\ groups = NoRows
  /\ issue_upvotes = [r \in IssueUpvoteRows |-> 0]
  /\ group_upvotes = [r \in GroupUpvoteRows |-> 0]
  /\ req = [q \in Reqs |-> IdleReq]
  /\ hist = [q \in Reqs |-> NoHist]
  /\ scope = "role"
  /\ comments = [i \in Issues |-> 0]
  /\ group_comments = [g \in Groups |-> 0]
  /\ group_join_request = NoRows

\* the locals of a role-change handler
RoleReq(pc, u, r) ==
  [pc |-> pc, kind |-> "role", userId |-> u, requested_role_id |-> r,
   res |-> NoRes]

\* SELECT req_id FROM role_change_request WHERE user_id = $1
\* AND requested_role_id = $2 AND status = 'pending'
PendingForRole(u, r) ==
  {id \in DOMAIN role_change_request :
     /\ role_change_request[id].user_id = u
     /\ role_change_request[id].requested_role_id = r
     /\ role_change_request[id].status = "pending"}

\* SELECT req_id FROM role_change_request WHERE user_id = $1
\* AND status = 'pending'
PendingForUser(u) ==
  {id \in DOMAIN role_change_request :
     /\ role_change_request[id].user_id = u
     /\ role_change_request[id].status = "pending"}

\* req_id DEFAULT gen_random_uuid(): an id no row has
FreeRoleReqIds == RoleReqSlots \ DOMAIN role_change_request

NewRoleReqId == CHOOSE id \in FreeRoleReqIds : \A o \in FreeRoleReqIds : id <= o

\* POST /role-change-request is received: the body is validated and
\* roleCheck is read
SubmitRoleChangeRequest(q, u, r) ==
  /\ req[q].pc = "idle"
  /\ scope = "role"
  /\ req' = [req EXCEPT ![q] =
       IF r = NULL THEN Done([status |-> 400])
       ELSE IF r \notin DOMAIN roles THEN Done([status |-> 404])
       ELSE RoleReq("rcr_user", u, r)]
  /\ UNCHANGED <<roles, users, role_change_request, issues, groups,
                 issue_upvotes, group_upvotes, scope, rest>>

\* userRole: SELECT role_id FROM users WHERE user_id = $1
RcrUserRole(q) ==
  /\ req[q].pc = "rcr_user"
  /\ req' = [req EXCEPT ![q] =
       IF users[req[q].userId] = req[q].requested_role_id
       THEN Done([status |-> 400])
       ELSE [@ EXCEPT !.pc = "rcr_pending"]]
  /\ UNCHANGED <<roles, users, role_change_request, issues, groups,
                 issue_upvotes, group_upvotes, hist, scope, rest>>

\* existingRequest: a pending request of the user for this role
RcrPending(q) ==
  /\ req[q].pc = "rcr_pending"
  /\ req' = [req EXCEPT ![q] =
       IF PendingForRole(req[q].userId, req[q].requested_role_id) # {}
       THEN Done([status |-> 400])
       ELSE [@ EXCEPT !.pc = "rcr_insert"]]
  /\ UNCHANGED <<roles, users, role_change_request, issues, groups,
                 issue_upvotes, group_upvotes, hist, scope, rest>>

\* INSERT INTO role_change_request (user_id, requested_role_id[, status]):
\* the status is 'pending' by value or by default, reviewed_at is NULL
RcrInsert(q) ==
  /\ req[q].pc = "rcr_insert"
  /\ FreeRoleReqIds # {}
  /\ role_change_request' =
       [id \in DOMAIN role_change_request \cup {NewRoleReqId} |->
          IF id = NewRoleReqId
          THEN [status |-> "pending", user_id |-> req[q].userId,
                requested_role_id |-> req[q].requested_role_id,
                reviewed |-> FALSE]
          ELSE role_change_request[id]]
  /\ req' = [req EXCEPT ![q] =
               Done([status |-> 201, req_id |-> NewRoleReqId])]
  /\ UNCHANGED <<roles, users, issues, groups, issue_upvotes, group_upvotes,
                 hist, scope, rest>>

\* POST /role-change-requests is received: the body is validated and the
\* user's pending requests are read
SubmitRoleChangeRequests(q, u, r) ==
  /\ req[q].pc = "idle"
  /\ scope = "role"
  /\ req' = [req EXCEPT ![q] =
       IF r = NULL THEN Done([status |-> 400])
       ELSE IF PendingForUser(u) # {} THEN Done([status |-> 400])
       ELSE RoleReq("rcrs_role", u, r)]
  /\ UNCHANGED <<roles, users, role_change_request, issues, groups,
                 issue_upvotes, group_upvotes, scope, rest>>

\* roleCheck: SELECT role_id FROM roles WHERE role_id = $1
RcrsRoleCheck(q) ==
  /\ req[q].pc = "rcrs_role"
  /\ req' = [req EXCEPT ![q] =
       IF req[q].requested_role_id \notin DOMAIN roles
       THEN Done([status |-> 404])
       ELSE [@ EXCEPT !.pc = "rcr_insert"]]
  /\ UNCHANGED <<roles, users, role_change_request, issues, groups,
                 issue_upvotes, group_upvotes, hist, scope, rest>>

\* PUT /admin/role-requests/:id: the status is validated, then the handler
\* runs SELECT process_role_change_request($1, $2). The schema defines
\* process_role_change_request as a PROCEDURE, which PostgreSQL refuses to
\* run from SELECT ("is a procedure", use CALL): the query rejects, the
\* catch block answers 500 and nothing is written
DecideRoleChangeRequest(q, id, status) ==
  /\ req[q].pc = "idle"
  /\ scope = "role"
  /\ req' = [req EXCEPT ![q] =
       IF status \notin {"approved", "rejected"}
       THEN Done([status |-> 400])
       ELSE Done([status |-> 500])]
  /\ UNCHANGED <<roles, users, role_change_request, issues, groups,
                 issue_upvotes, group_upvotes, scope, rest>>

\* CALL process_role_change_request on a stored request; the procedure
\* reads v_pending_role_requests and raises when the request is not there
CallProcessRoleChangeRequest(id, status) ==
  /\ scope = "role"
  /\ id \in DOMAIN role_change_request
  /\ ProcessRoleChangeRequest(id, status)

(* ------------------------------------------------------------------ *)
(* Specifications                                                     *)
(* ------------------------------------------------------------------ *)



Quiet == \A q \in Reqs : ~InFlight(q)

AllIdle == \A q \in Reqs : req[q].pc = "idle"

\* history: what request q finds on arrival (the subject's upvote_count, the
\* stored weight of the caller's Vote, the caller's role weight), that q is
\* the last request to arrive, and whether the request that arrived just
\* before it is another one whose answer is still held
Record(q) ==
  hist' = [p \in Reqs |->
     IF p = q
     THEN [startCount |-> UpvoteCount(req'[q].kind, req'[q].id),
           startStored |-> StoredWeight(req'[q].kind, req'[q].id, req'[q].userId),
           startWeight |-> TriggerWeight(req'[q].userId),
           last |-> TRUE,
           prev |-> /\ ~hist[q].last
                    /\ \E o \in Reqs \ {q} : req[o].pc # "idle"]
     ELSE [hist[p] EXCEPT !.last = FALSE, !.prev = FALSE]]

\* a statement of a handler under way
Step(q) ==
  \/ IssueUpvoteCheck(q)
  \/ IssueUpvoteDelete(q)
  \/ IssueUpvoteDecrement(q)
  \/ IssueUpvoteInsert(q)
  \/ IssueUpvoteIncrement(q)
  \/ GroupUpvoteDelete(q)
  \/ GroupUpvoteDecrement(q)
  \/ GroupUpvoteInsert(q)
  \/ GroupUpvoteIncrement(q)

Admin ==
  \/ \E r \in EditedRoles, w \in Weights : UpdateRole(r, w)
  \/ \E id \in RoleReqIds, status \in {"approved", "rejected"} :
       ProcessRoleChangeRequest(id, status)

\* requests and administration interleave freely
Next ==
  \/ \E q \in Reqs, i \in Issues, u \in Users :
       IssueUpvoteGetWeight(q, i, u) /\ UNCHANGED hist
  \/ \E q \in Reqs, g \in Groups, u \in Users :
       GroupUpvoteCheck(q, g, u) /\ UNCHANGED hist
  \/ \E q \in Reqs : Step(q)
  \/ \E q \in Reqs : Respond(q)
  \/ Admin

Spec == Init /\ [][Next]_vars

\* one request at a time, administration between requests
NextSeq ==
  \/ \E q \in Reqs, i \in Issues, u \in Users :
       Quiet /\ IssueUpvoteGetWeight(q, i, u) /\ Record(q)
  \/ \E q \in Reqs, g \in Groups, u \in Users :
       Quiet /\ GroupUpvoteCheck(q, g, u) /\ Record(q)
  \/ \E q \in Reqs : Step(q)
  \/ \E q \in Reqs : Respond(q)
  \/ Quiet /\ Admin

SpecSeq == Init /\ [][NextSeq]_vars

\* requests overlap freely and are answered together; the roles are
\* administered between batches
NextPair ==
  \/ \E q \in Reqs, i \in Issues, u \in Users :
       IssueUpvoteGetWeight(q, i, u) /\ Record(q)
  \/ \E q \in Reqs, g \in Groups, u \in Users :
       GroupUpvoteCheck(q, g, u) /\ Record(q)
  \/ \E q \in Reqs : Step(q)
  \/ RespondAll
  \/ AllIdle /\ Admin

SpecPair == Init /\ [][NextPair]_vars

\* comments: the requests are served one after another, and a comment is
\* deleted between requests
NextComment ==
  \/ \E q \in Reqs, i \in Issues, u \in Users, c \in Contents :
       Quiet /\ IssueCommentInsert(q, i, u, c)
  \/ \E q \in Reqs, g \in Groups, u \in Users, c \in Contents :
       Quiet /\ GroupCommentInsert(q, g, u, c)
  \/ \E q \in Reqs : IssueCommentGetUser(q)
  \/ \E q \in Reqs : IssueCommentCount(q)
  \/ \E q \in Reqs : GroupCommentGetUser(q)
  \/ \E q \in Reqs : GroupCommentCount(q)
  \/ \E q \in Reqs : Respond(q)
  \/ \E i \in Issues : AllIdle /\ DeleteIssueComment(i)
  \/ \E g \in Groups : AllIdle /\ DeleteGroupComment(g)

SpecComment == Init /\ [][NextComment]_vars

(* ------------------------------------------------------------------ *)
(* Reads: GET /issues/:id and GET /groups                              *)
(* ------------------------------------------------------------------ *)

\* SELECT COUNT(*) as count FROM comments WHERE issue_id = $1
CountComments(i) == comments[i]

\* (SELECT COUNT(*) FROM issues WHERE group_id = g.group_id) as issue_count
CountIssues(g) == Cardinality({i \in DOMAIN issues : issues[i].group_id = g})

\* history: the read that request q makes and the rows it finds
RecordRead(q, call) ==
  hist' = [hist EXCEPT ![q] =
             [call |-> call, issues |-> issues, groups |-> groups,
              last |-> TRUE]]

\* GET /issues/:id: 404 without the row; else the row's upvote_count and
\* comment_count: parseInt(commentsResult.rows[0].count)
GetIssue(q, i) ==
  /\ req[q].pc = "idle"
  /\ scope = "issue"
  /\ req' = [req EXCEPT ![q] =
       [pc |-> "done", kind |-> "get_issue", id |-> i, userId |-> NULL,
        upvoteWeight |-> 0,
        res |-> IF i \notin DOMAIN issues THEN [status |-> 404]
                ELSE [status |-> 200,
                      upvote_count |-> issues[i].upvote_count,
                      comment_count |-> CountComments(i)]]]
  /\ RecordRead(q, [op |-> "get_issue", id |-> i])
  /\ UNCHANGED <<roles, users, role_change_request, issues, groups,
                 issue_upvotes, group_upvotes, scope, rest>>

\* GET /groups: of every group the stored upvote_count and comment_count
\* and the issue_count of the subquery
GetGroups(q) ==
  /\ req[q].pc = "idle"
  /\ scope = "join"
  /\ req' = [req EXCEPT ![q] =
       [pc |-> "done", kind |-> "get_groups", id |-> NULL, userId |-> NULL,
        upvoteWeight |-> 0,
        res |-> [status |-> 200,
                 groups |-> [g \in DOMAIN groups |->
                    [upvote_count |-> groups[g].upvote_count,
                     comment_count |-> groups[g].comment_count,
                     issue_count |-> CountIssues(g)]]]]]
  /\ RecordRead(q, [op |-> "get_groups"])
  /\ UNCHANGED <<roles, users, role_change_request, issues, groups,
                 issue_upvotes, group_upvotes, scope, rest>>

\* the first slot serves one request at a time: comments on an issue and
\* reads of it in one kind of behaviour, issues entering and leaving groups
\* and listings of the groups in the other
NextRead ==
  \/ \E i \in Issues, u \in Users, c \in Contents :
       IssueCommentInsert("q1", i, u, c)
  \/ IssueCommentGetUser("q1")
  \/ IssueCommentCount("q1")
  \/ \E i \in Issues : AllIdle /\ DeleteIssueComment(i)
  \/ \E i \in Issues \cup {AbsentIssue} : GetIssue("q1", i)
  \/ \E i \in JoinIssues, u \in Users, g \in JoinGroups \cup {NULL} :
       AllIdle /\ CreateIssue(i, u, g) /\ UNCHANGED hist
  \/ \E i \in JoinIssues : AllIdle /\ DeleteIssue(i) /\ UNCHANGED hist
  \/ \E i \in JoinIssues, g \in JoinGroups \cup {NULL} :
       AllIdle /\ ReassignIssueGroup(i, g) /\ UNCHANGED hist
  \/ GetGroups("q1")
  \/ Respond("q1")

SpecRead ==
  /\ (Init /\ scope = "issue") \/ InitGroups(JoinGroups)
  /\ [][NextRead]_vars

\* a statement of a join-request handler under way
StepJoin(q) ==
  \/ JoinCheckLink(q)
  \/ JoinCheckPending(q)
  \/ JoinAutoUpdate(q)
  \/ JoinInsert(q)
  \/ DecideUpdate(q)
  \/ DecideLink(q)
  \/ CancelUpdate(q)

\* the statuses a caller sends to PUT /group-join-requests/:id
DecideStatuses == {"accepted", "declined", "approved"}

\* the statuses process_group_join_request is called with
ProcessStatuses == {"approved", "declined"}

\* the handlers of join requests overlapping freely, on one issue and one
\* group
NextJoin ==
  \/ \E i \in JoinIssues, u \in Users, g \in DOMAIN groups \cup {NULL} :
       CreateIssue(i, u, g) /\ UNCHANGED hist
  \/ \E i \in JoinIssues : DeleteIssue(i) /\ UNCHANGED hist
  \/ \E q \in Reqs, i \in JoinIssues, g \in DOMAIN groups \cup {NULL},
        byGroup \in BOOLEAN, u \in Users :
       SubmitJoinRequest(q, i, g, byGroup, u) /\ UNCHANGED hist
  \/ \E q \in Reqs, id \in JoinReqIds, st \in DecideStatuses, u \in Users :
       DecideJoinRequest(q, id, st, u) /\ UNCHANGED hist
  \/ \E q \in Reqs, id \in JoinReqIds, u \in Users :
       CancelJoinRequest(q, id, u) /\ UNCHANGED hist
  \/ \E q \in Reqs : StepJoin(q)
  \/ \E q \in Reqs : Respond(q)
  \/ \E id \in JoinReqIds, st \in ProcessStatuses :
       ProcessGroupJoinRequest(id, st)
  \/ \E id \in JoinReqIds, u \in Users : CancelGroupJoinRequest(id, u)

SpecJoin == InitGroups(Groups) /\ [][NextJoin]_vars

\* the three endpoints of join requests overlapping freely on an issue that
\* stays: no issue is deleted, so no req_id is given twice
NextRace ==
  \/ \E i \in JoinIssues, u \in Users, g \in DOMAIN groups \cup {NULL} :
       CreateIssue(i, u, g) /\ UNCHANGED hist
  \/ \E q \in Reqs, i \in JoinIssues, g \in DOMAIN groups \cup {NULL},
        byGroup \in BOOLEAN, u \in Users :
       SubmitJoinRequest(q, i, g, byGroup, u) /\ UNCHANGED hist
  \/ \E q \in Reqs, id \in JoinReqIds, st \in DecideStatuses, u \in Users :
       DecideJoinRequest(q, id, st, u) /\ UNCHANGED hist
  \/ \E q \in Reqs, id \in JoinReqIds, u \in Users :
       CancelJoinRequest(q, id, u) /\ UNCHANGED hist
  \/ \E q \in Reqs : StepJoin(q)
  \/ \E q \in Reqs : Respond(q)

SpecRace == InitGroups(Groups) /\ [][NextRace]_vars

\* history: the call that request q makes and the tables it finds
RecordJoin(q, call) ==
  hist' = [hist EXCEPT ![q] =
             [call |-> call, issues |-> issues, groups |-> groups,
              group_join_request |-> group_join_request, last |-> TRUE]]

\* the answer of q is sent and its history dropped
Forget(q) ==
  /\ req[q].pc = "done"
  /\ req' = [req EXCEPT ![q] = IdleReq]
  /\ hist' = [hist EXCEPT ![q] = NoHist]
  /\ UNCHANGED <<roles, users, role_change_request, issues, groups,
                 issue_upvotes, group_upvotes, scope, rest>>

\* the request slot of the behaviours that serve one request at a time
First == "q1"

\* membership and join requests on two groups, one request at a time
NextJoinSeq ==
  \/ \E i \in JoinIssues, u \in Users, g \in JoinGroups \cup {NULL} :
       AllIdle /\ CreateIssue(i, u, g) /\ UNCHANGED hist
  \/ \E i \in JoinIssues : AllIdle /\ DeleteIssue(i) /\ UNCHANGED hist
  \/ \E i \in JoinIssues, g \in JoinGroups \cup {NULL},
        byGroup \in BOOLEAN, u \in Actors :
       /\ SubmitJoinRequest(First, i, g, byGroup, u)
       /\ RecordJoin(First, [op |-> "submit", issue_id |-> i, group_id |-> g,
                             requested_by_group |-> byGroup, userId |-> u])
  \/ \E id \in JoinReqIds, st \in DecideStatuses, u \in Actors :
       /\ DecideJoinRequest(First, id, st, u)
       /\ RecordJoin(First, [op |-> "decide", id |-> id, status |-> st,
                             userId |-> u])
  \/ \E id \in JoinReqIds, u \in Actors :
       /\ CancelJoinRequest(First, id, u)
       /\ RecordJoin(First, [op |-> "cancel", id |-> id, userId |-> u])
  \/ StepJoin(First)
  \/ Forget(First)
  \/ \E id \in JoinReqIds, st \in ProcessStatuses :
       /\ CallProcess(First, id, st)
       /\ RecordJoin(First, [op |-> "process", id |-> id, status |-> st])
  \/ \E id \in JoinReqIds, u \in Actors :
       /\ CallCancel(First, id, u)
       /\ RecordJoin(First, [op |-> "cancel_proc", id |-> id, userId |-> u])

SpecJoinSeq == InitGroups(JoinGroups) /\ [][NextJoinSeq]_vars

\* history of the membership behaviours: the last statement on issues, the
\* issue's group before and after it, and the groups table before it
LogMember(op, i, old, new) ==
  hist' = [op |-> op, issue_id |-> i, old |-> old, new |-> new,
           groups |-> groups]

\* the last statement of a membership behaviour; "none" before the first
LastOp == IF "op" \in DOMAIN hist THEN hist.op ELSE "none"

\* the group of issue i; NULL when it has none or is not there
GroupOf(i) == IF i \in DOMAIN issues THEN issues[i].group_id ELSE NULL

\* the membership counter: issues are created, deleted and moved between
\* the groups
NextMember ==
  \/ \E i \in MemberIssues, u \in Users, g \in JoinGroups \cup {NULL} :
       CreateIssue(i, u, g) /\ LogMember("create", i, NULL, g)
  \/ \E i \in MemberIssues :
       DeleteIssue(i) /\ LogMember("delete", i, GroupOf(i), NULL)
  \/ \E i \in MemberIssues, g \in JoinGroups \cup {NULL} :
       ReassignIssueGroup(i, g) /\ LogMember("reassign", i, GroupOf(i), g)

SpecMember == InitGroups(JoinGroups) /\ [][NextMember]_vars

\* the steps of a role-change handler that has been received
StepRole(q) ==
  \/ RcrUserRole(q)
  \/ RcrPending(q)
  \/ RcrsRoleCheck(q)
  \/ RcrInsert(q)

\* the role_id values a caller sends
AskedRoles == RoleIds \cup {MissingRole, NULL}

\* the statuses an admin sends to PUT /admin/role-requests/:id
AdminStatuses == {"approved", "rejected", "pending"}

\* role-change requests, handlers overlapping freely
NextRole ==
  \/ \E q \in Reqs, u \in Users, r \in AskedRoles :
       SubmitRoleChangeRequest(q, u, r) /\ UNCHANGED hist
  \/ \E q \in Reqs, u \in Users, r \in AskedRoles :
       SubmitRoleChangeRequests(q, u, r) /\ UNCHANGED hist
  \/ \E q \in Reqs, id \in RoleReqSlots, st \in AdminStatuses :
       DecideRoleChangeRequest(q, id, st) /\ UNCHANGED hist
  \/ \E q \in Reqs : StepRole(q)
  \/ \E q \in Reqs : Respond(q)
  \/ \E id \in RoleReqSlots, st \in {"approved", "rejected"} :
       CallProcessRoleChangeRequest(id, st)

SpecRole == InitRole /\ [][NextRole]_vars

\* history: the call that request q makes and the tables it finds
RecordRole(q, call) ==
  hist' = [hist EXCEPT ![q] =
             [call |-> call, users |-> users, roles |-> roles,
              role_change_request |-> role_change_request, last |-> TRUE]]

\* role-change requests, one request at a time
NextRoleSeq ==
  \/ \E u \in Users, r \in AskedRoles :
       /\ SubmitRoleChangeRequest(First, u, r)
       /\ RecordRole(First, [op |-> "submit_one", userId |-> u,
                             requested_role_id |-> r])
  \/ \E u \in Users, r \in AskedRoles :
       /\ SubmitRoleChangeRequests(First, u, r)
       /\ RecordRole(First, [op |-> "submit", userId |-> u,
                             requested_role_id |-> r])
  \/ \E id \in RoleReqSlots, st \in AdminStatuses :
       /\ DecideRoleChangeRequest(First, id, st)
       /\ RecordRole(First, [op |-> "decide", id |-> id, status |-> st])
  \/ StepRole(First)
  \/ Forget(First)
  \/ \E id \in RoleReqSlots, st \in {"approved", "rejected"} :
       AllIdle /\ CallProcessRoleChangeRequest(id, st)

SpecRoleSeq == InitRole /\ [][NextRoleSeq]_vars

\* history: the toggle that request q makes and the tables it finds
RecordToggle(q, call) ==
  hist' = [hist EXCEPT ![q] =
             [call |-> call, issues |-> issues, groups |-> groups,
              issue_upvotes |-> issue_upvotes,
              group_upvotes |-> group_upvotes, last |-> TRUE]]

\* toggles, one at a time, on subjects that are stored and on ids that no
\* row has; the roles are administered between them
NextAbsent ==
  \/ \E i \in Issues \cup {AbsentIssue}, u \in Users \cup {AbsentUser} :
       /\ IssueUpvoteGetWeight(First, i, u)
       /\ RecordToggle(First, [kind |-> "issue", id |-> i, userId |-> u])
  \/ \E g \in Groups \cup {AbsentGroup}, u \in Users \cup {AbsentUser} :
       /\ GroupUpvoteCheck(First, g, u)
       /\ RecordToggle(First, [kind |-> "group", id |-> g, userId |-> u])
  \/ Step(First)
  \/ Forget(First)
  \/ AllIdle /\ Admin

SpecAbsent == Init /\ [][NextAbsent]_vars

(* ------------------------------------------------------------------ *)
(* What the claims speak of                                           *)
(* ------------------------------------------------------------------ *)

Kinds == {"issue", "group"}

Subjects(kind) == IF kind = "issue" THEN Issues ELSE Groups

RECURSIVE SumWeights(_, _)
\* the sum of the stored weights of the rows `rows` of table t
SumWeights(t, rows) ==
  IF rows = {} THEN 0
  ELSE LET r == CHOOSE x \in rows : TRUE
       IN t[r] * r.upvote_weight + SumWeights(t, rows \ {r})

RECURSIVE CountRows(_, _)
\* the number of rows of table t among the distinct rows `rows`
CountRows(t, rows) ==
  IF rows = {} THEN 0
  ELSE LET r == CHOOSE x \in rows : TRUE
       IN t[r] + CountRows(t, rows \ {r})

\* the sum of the stored weights of the Votes of subject s
LedgerTotal(kind, s) ==
  LET t == UpvoteTable(kind)
  IN SumWeights(t, {r \in DOMAIN t : r.subject_id = s})

\* the number of Vote rows of (s, u)
NumVotes(kind, s, u) == CountRows(UpvoteTable(kind), VoteRows(kind, s, u))

\* q is answered and no request arrived after it
Latest(q) == req[q].pc = "done" /\ hist[q].last

\* f and q are both answered, f arrived first and q next, and they are
\* toggles of the same kind on the same subject
Pair(f, q) ==
  /\ f # q
  /\ req[f].pc = "done" /\ req[q].pc = "done"
  /\ hist[q].last /\ hist[q].prev
  /\ req[f].kind = req[q].kind /\ req[f].id = req[q].id

\* one ToggleVote run alone from upvote_count c, the caller's Vote stored
\* with weight s (0: none) and the caller's role weight w: the handler's
\* statements in order
SerialToggle(kind, c, s, w) ==
  IF kind = "issue"
  THEN IF s > 0
       THEN [count |-> IssueEndpointDecrement(TrgUpvoteAfterDeleteRow(c, s), w),
             stored |-> 0]
       ELSE [count |-> IssueEndpointIncrement(TrgUpvoteAfterInsert(c, w), w),
             stored |-> w]
  ELSE IF s > 0
       THEN [count |-> GroupEndpointDecrement(TrgUpvoteAfterDeleteRow(c, s)),
             stored |-> 0]
       ELSE [count |-> GroupEndpointIncrement(TrgUpvoteAfterInsert(c, w)),
             stored |-> w]

(* ------------------------------------------------------------------ *)
(* Claims                                                             *)
(* ------------------------------------------------------------------ *)

\* C1: whenever no toggle is under way, every subject's upvote_count equals
\* the sum of the stored weights of the Vote rows that exist for it.
C1_CountIsLedgerTotal ==
  Quiet => \A kind \in Kinds : \A s \in Subjects(kind) :
             UpvoteCount(kind, s) = LedgerTotal(kind, s)

\* C2: a toggle that finds no Vote of the caller answers upvoted = true with
\* the new count, stores a Vote whose weight is the caller's role weight at
\* that moment, and raises upvote_count by exactly that weight.
C2_AddVote ==
  \A q \in Reqs :
    (Latest(q) /\ hist[q].startStored = 0) =>
      /\ req[q].res.status = 200
      /\ req[q].res.upvoted
      /\ StoredWeight(req[q].kind, req[q].id, req[q].userId) = hist[q].startWeight
      /\ UpvoteCount(req[q].kind, req[q].id)
           = hist[q].startCount + hist[q].startWeight
      /\ req[q].res.upvote_count = UpvoteCount(req[q].kind, req[q].id)

\* C3: a toggle that finds a Vote of the caller deletes it, lowers
\* upvote_count by exactly the Vote's stored weight (floored at 0) and
\* answers upvoted = false with the new count.
C3_RemoveVote ==
  \A q \in Reqs :
    (Latest(q) /\ hist[q].startStored > 0) =>
      /\ req[q].res.status = 200
      /\ ~req[q].res.upvoted
      /\ VoteRows(req[q].kind, req[q].id, req[q].userId) = {}
      /\ UpvoteCount(req[q].kind, req[q].id)
           = GREATEST(hist[q].startCount - hist[q].startStored, 0)
      /\ req[q].res.upvote_count = UpvoteCount(req[q].kind, req[q].id)

\* C4: weight preservation: removing a Vote cast at weight w1 after the
\* voter's role weight became w2 # w1 lowers upvote_count by w1.
C4_WeightPreserved ==
  \A q \in Reqs :
    (/\ Latest(q)
     /\ hist[q].startStored > 0
     /\ hist[q].startWeight # hist[q].startStored
     /\ hist[q].startCount >= hist[q].startStored) =>
      hist[q].startCount - UpvoteCount(req[q].kind, req[q].id)
        = hist[q].startStored

\* C5: two consecutive toggles of the same voter on the same subject, with no
\* other toggle of that subject between them, leave upvote_count as it was
\* before the first, and leave no Vote when there was none.
C5_DoubleToggle ==
  \A f \in Reqs, q \in Reqs :
    (/\ Pair(f, q)
     /\ req[f].userId = req[q].userId
     /\ req[f].res.status = 200 /\ req[q].res.status = 200) =>
      /\ UpvoteCount(req[q].kind, req[q].id) = hist[f].startCount
      /\ hist[f].startStored = 0 =>
           VoteRows(req[q].kind, req[q].id, req[q].userId) = {}

\* C6: two toggles of different voters, neither of whom has voted, on the
\* same subject both succeed, and under every interleaving the final
\* upvote_count is the initial one plus the two weights.
C6_DistinctVoters ==
  \A f \in Reqs, q \in Reqs :
    (/\ Pair(f, q)
     /\ req[f].userId # req[q].userId
     /\ hist[f].startStored = 0 /\ hist[q].startStored = 0) =>
      /\ req[f].res.status = 200 /\ req[q].res.status = 200
      /\ UpvoteCount(req[q].kind, req[q].id)
           = hist[f].startCount
             + StoredWeight(req[f].kind, req[f].id, req[f].userId)
             + StoredWeight(req[q].kind, req[q].id, req[q].userId)

\* C7: two toggles of the same voter on the same subject end as some serial
\* order of the two does, or as one of them alone does with the other
\* failing without effect.
C7_SameVoterSerial ==
  \A f \in Reqs, q \in Reqs :
    (Pair(f, q) /\ req[f].userId = req[q].userId) =>
      LET kind == req[q].kind
          w == hist[f].startWeight
          one == SerialToggle(kind, hist[f].startCount, hist[f].startStored, w)
          two == SerialToggle(kind, one.count, one.stored, w)
          now == [count |-> UpvoteCount(kind, req[q].id),
                  stored |-> StoredWeight(kind, req[q].id, req[q].userId)]
          ok == {p \in {f, q} : req[p].res.status = 200}
      IN \/ ok = {f, q} /\ now = two
         \/ Cardinality(ok) = 1 /\ now = one

\* C8: a toggle is one atomic unit: no state, the ones between the
\* statements of a toggle included, has the Vote row of (s, v) present while
\* the subject's upvote_count does not include its weight, or absent while
\* the count still includes it.
C8_ToggleAtomic ==
  \A kind \in Kinds : \A s \in Subjects(kind) : \A u \in Users :
    LET mine == SumWeights(UpvoteTable(kind), VoteRows(kind, s, u))
        others == LedgerTotal(kind, s) - mine
    IN IF VoteRows(kind, s, u) # {}
       THEN UpvoteCount(kind, s) >= others + mine
       ELSE UpvoteCount(kind, s) <= others

\* C9: the upvote_count, comment_count and issue_count of every issue and
\* group are never negative.
C9_CounterFloor ==
  /\ \A i \in Issues : issues[i].upvote_count >= 0 /\ issues[i].comment_count >= 0
  /\ \A g \in Groups : /\ groups[g].upvote_count >= 0
                       /\ groups[g].comment_count >= 0
                       /\ groups[g].issue_count >= 0

\* C10: there is at most one Vote row per (subject, voter) pair.
C10_OneVotePerPair ==
  \A kind \in Kinds : \A s \in Subjects(kind) : \A u \in Users :
    NumVotes(kind, s, u) <= 1

\* C10's case: a second INSERT for the same (subject, voter) was attempted
\* and refused, and the pair's Vote is there
C10_Witness ==
  \E q \in Reqs :
    /\ req[q].pc = "done"
    /\ req[q].res.status = 500
    /\ NumVotes(req[q].kind, req[q].id, req[q].userId) = 1

\* C13: whenever no comment request is under way, every subject's
\* comment_count equals the number of Comment rows that exist for it.
C13_CommentCountIsRows ==
  Quiet => \A kind \in Kinds : \A s \in Subjects(kind) :
             CommentCount(kind, s) = CommentTable(kind)[s]

\* C14: a successful AddComment inserts exactly one Comment and raises the
\* subject's comment_count by exactly 1 (the insert trigger's increment and
\* nothing more).
C14_AddCommentOnce ==
  \A q \in Reqs :
    (Latest(q) /\ req[q].res.status = 201) =>
      /\ CommentTable(req[q].kind)[req[q].id] = hist[q].startRows + 1
      /\ CommentCount(req[q].kind, req[q].id) = hist[q].startCount + 1

\* the number of issues whose group_id is g
MemberCount(g) ==
  Cardinality({i \in DOMAIN issues : issues[i].group_id = g})

\* C11: after any sequence of issue creations, deletions and reassignments
\* every group's issue_count equals the number of issues whose group_id is
\* that group, and creating an issue with a non-null group adds 1 to that
\* group's count and leaves the other counts alone.
C11_IssueCountIsMembers ==
  /\ \A g \in DOMAIN groups : groups[g].issue_count = MemberCount(g)
  /\ (LastOp = "create" /\ hist.new # NULL) =>
       \A g \in DOMAIN groups :
         groups[g].issue_count =
           hist.groups[g].issue_count + (IF g = hist.new THEN 1 ELSE 0)

\* C11's case: an issue was created in a group that already had one
C11_Witness ==
  /\ LastOp = "create"
  /\ hist.new # NULL
  /\ groups[hist.new].issue_count >= 2

\* C12: ReassignIssueGroup(issue, newGroup) lowers the prior non-null group's
\* issue_count by 1 (floored at 0), raises the non-null new group's by 1,
\* sets the issue's group_id, leaves every other count alone, and changes
\* nothing when the issue already has that group.
C12_Reassign ==
  LastOp = "reassign" =>
    /\ GroupOf(hist.issue_id) = hist.new
    /\ \A g \in DOMAIN groups :
         LET c == hist.groups[g].issue_count
         IN groups[g].issue_count =
              IF hist.old = hist.new THEN c
              ELSE IF g = hist.old THEN GREATEST(c - 1, 0)
              ELSE IF g = hist.new THEN c + 1
              ELSE c

\* C12's case: an issue was moved from one group to another
C12_Witness ==
  /\ LastOp = "reassign"
  /\ hist.old # NULL /\ hist.new # NULL /\ hist.old # hist.new
  /\ groups[hist.old].issue_count >= 1

\* C15: in every state, concurrent submissions for one pair by the issue
\* owner and the group owner included, there is at most one pending join
\* request per (issue_id, group_id) pair.
C15_OnePendingPerPair ==
  \A i \in JoinIssues, g \in DOMAIN groups :
    Cardinality(PendingRequests(i, g)) <= 1

\* C15's case: a submission of one side has passed the pending check and is
\* about to insert while the other side's pending request for the same pair
\* is already there
C15_Witness ==
  \E q \in Reqs :
    /\ req[q].pc = "join_insert"
    /\ req[q].status = "pending"
    /\ \E id \in PendingRequests(req[q].issue_id, req[q].group_id) :
         group_join_request[id].requested_by_group
           # req[q].requested_by_group

\* C16: Approved, Declined and Cancelled are terminal: once a join request's
\* status is no longer pending, no step of a decide, cancel or process
\* operation changes its status or its handled_at again.
C16_TerminalStatus ==
  [][\A id \in DOMAIN group_join_request :
       (group_join_request[id].status # "pending"
        /\ id \in DOMAIN group_join_request') =>
         /\ group_join_request'[id].status = group_join_request[id].status
         /\ group_join_request'[id].handled_at
              = group_join_request[id].handled_at]_vars

\* the call of the request slot First is a finished submission made by an
\* owner entitled to it, for an issue and a group that both exist
SubmitByOwner ==
  /\ Latest(First)
  /\ hist[First].call.op = "submit"
  /\ hist[First].call.issue_id \in DOMAIN hist[First].issues
  /\ hist[First].call.group_id \in DOMAIN hist[First].groups
  /\ IF hist[First].call.requested_by_group
     THEN hist[First].groups[hist[First].call.group_id].owner_id
            = hist[First].call.userId
     ELSE hist[First].issues[hist[First].call.issue_id].user_id
            = hist[First].call.userId

\* the join requests that the submission of First found for its pair
FoundForPair ==
  {id \in DOMAIN hist[First].group_join_request :
     /\ hist[First].group_join_request[id].issue_id
          = hist[First].call.issue_id
     /\ hist[First].group_join_request[id].group_id
          = hist[First].call.group_id}

\* C17: a submission for a pair that has a pending request is refused as a
\* conflict and stores nothing; a submission by an entitled owner for a pair
\* whose earlier request was cancelled succeeds and stores a new pending
\* request.
C17_MutualExclusivity ==
  SubmitByOwner =>
    /\ (\E id \in FoundForPair :
          hist[First].group_join_request[id].status = "pending") =>
         /\ req[First].res.status = 400
         /\ group_join_request = hist[First].group_join_request
    /\ ( /\ FoundForPair # {}
         /\ \A id \in FoundForPair :
              hist[First].group_join_request[id].status = "cancelled"
         /\ hist[First].issues[hist[First].call.issue_id].group_id
              # hist[First].call.group_id
         /\ hist[First].issues[hist[First].call.issue_id].user_id
              # hist[First].groups[hist[First].call.group_id].owner_id ) =>
         /\ req[First].res.status = 201
         /\ \E id \in DOMAIN group_join_request \ DOMAIN
                        hist[First].group_join_request :
              /\ group_join_request[id].status = "pending"
              /\ group_join_request[id].issue_id = hist[First].call.issue_id
              /\ group_join_request[id].group_id = hist[First].call.group_id

\* C18: when the caller owns both the issue and the group and the issue is
\* not in the group, the submission returns a request that is already
\* approved with handled_at set, the issue is then in the group and the
\* group's issue_count is one more than before.
C18_AutoApproval ==
  ( /\ SubmitByOwner
    /\ hist[First].issues[hist[First].call.issue_id].user_id
         = hist[First].call.userId
    /\ hist[First].groups[hist[First].call.group_id].owner_id
         = hist[First].call.userId
    /\ hist[First].issues[hist[First].call.issue_id].group_id
         # hist[First].call.group_id ) =>
    /\ req[First].res.status = 201
    /\ req[First].res.request.status = "approved"
    /\ req[First].res.request.handled_at # 0
    /\ issues[hist[First].call.issue_id].group_id = hist[First].call.group_id
    /\ groups[hist[First].call.group_id].issue_count
         = hist[First].groups[hist[First].call.group_id].issue_count + 1

\* the call of the request slot First is a finished decision on a request
\* that was stored and pending when the call arrived
DecidedPending ==
  /\ Latest(First)
  /\ hist[First].call.op = "decide"
  /\ hist[First].call.id \in DOMAIN hist[First].group_join_request
  /\ hist[First].group_join_request[hist[First].call.id].status = "pending"

\* the request that the decision of First is about, as the call found it
Decided == hist[First].group_join_request[hist[First].call.id]

\* the party that did not make the request: the issue owner for a request
\* of the group, the group owner for a request of the issue
Entitled(u) ==
  IF Decided.requested_by_group
  THEN hist[First].issues[Decided.issue_id].user_id = u
  ELSE hist[First].groups[Decided.group_id].owner_id = u

\* the group of the decided request's issue when the call arrived
GroupBefore == hist[First].issues[Decided.issue_id].group_id

C20_DecisionAuthorization ==
  ( /\ DecidedPending
    /\ hist[First].call.status \in {"accepted", "declined"} ) =>
    IF Entitled(hist[First].call.userId)
    THEN /\ req[First].res.status = 200
         /\ group_join_request[hist[First].call.id].status
              = hist[First].call.status
    ELSE /\ req[First].res.status = 403
         /\ group_join_request = hist[First].group_join_request
         /\ group_join_request[hist[First].call.id].status = "pending"
         /\ issues = hist[First].issues
         /\ groups = hist[First].groups

\* the owner of the group has tried to decide the group's own request
C20_Witness ==
  /\ DecidedPending
  /\ hist[First].call.status \in {"accepted", "declined"}
  /\ Decided.requested_by_group
  /\ hist[First].groups[Decided.group_id].owner_id = hist[First].call.userId
  /\ hist[First].issues[Decided.issue_id].user_id # hist[First].call.userId
  /\ req[First].res.status = 403

\* the call of the request slot First is a finished cancellation of a
\* request that was stored and pending when the call arrived
CancelPending ==
  /\ Latest(First)
  /\ hist[First].call.op = "cancel"
  /\ hist[First].call.id \in DOMAIN hist[First].group_join_request
  /\ hist[First].group_join_request[hist[First].call.id].status = "pending"

\* u owns the issue or the group of the request that First is about
EitherOwner(u) ==
  \/ hist[First].issues[Decided.issue_id].user_id = u
  \/ hist[First].groups[Decided.group_id].owner_id = u

\* C21: a cancellation of a pending join request succeeds for the issue
\* owner and for the group owner, whoever made the request, and is refused
\* with 403 for every other actor.
C21_CancelAuthorization ==
  CancelPending =>
    IF EitherOwner(hist[First].call.userId)
    THEN /\ req[First].res.status = 200
         /\ group_join_request[hist[First].call.id].status = "cancelled"
    ELSE /\ req[First].res.status = 403
         /\ group_join_request = hist[First].group_join_request

\* the call of the request slot First is a finished submission for an issue
\* and a group that both exist
SubmitDone ==
  /\ Latest(First)
  /\ hist[First].call.op = "submit"
  /\ hist[First].call.issue_id \in DOMAIN hist[First].issues
  /\ hist[First].call.group_id \in DOMAIN hist[First].groups

\* the caller of First owns the group, owns the issue
OwnsGroup ==
  hist[First].groups[hist[First].call.group_id].owner_id
    = hist[First].call.userId

OwnsIssue ==
  hist[First].issues[hist[First].call.issue_id].user_id
    = hist[First].call.userId

\* the join requests stored since the call of First arrived
Created ==
  {id \in DOMAIN group_join_request :
     \/ id \notin DOMAIN hist[First].group_join_request
     \/ group_join_request[id] # hist[First].group_join_request[id]}

\* C22: a request created by a submission has requested_by_group true only
\* when the submitter owns the group and false only when the submitter owns
\* the issue; a submitter who owns neither gets 403 and nothing is stored.
C22_InitiatorIsOwner ==
  SubmitDone =>
    /\ \A id \in Created :
         IF group_join_request[id].requested_by_group
         THEN OwnsGroup ELSE OwnsIssue
    /\ (~OwnsGroup /\ ~OwnsIssue) =>
         /\ req[First].res.status = 403
         /\ Created = {}

\* the owner of a group has asked for another user's issue and the request
\* is stored
C22_Witness ==
  /\ SubmitDone
  /\ OwnsGroup
  /\ ~OwnsIssue
  /\ req[First].res.status = 201
  /\ \E id \in Created : group_join_request[id].requested_by_group

\* the statuses that stand for an approved join request
ApprovedStatuses == {"accepted", "approved"}

\* C23: approving a join request is one step: a step in which a request
\* becomes approved (from pending, or stored already approved) leaves the
\* issue in the request's group, and a step in which a stored issue enters
\* a group leaves an approved request for that issue and group.
C23_ApproveAtomic ==
  [][/\ \A id \in DOMAIN group_join_request' :
          ( /\ group_join_request'[id].status \in ApprovedStatuses
            /\ \/ id \notin DOMAIN group_join_request
               \/ group_join_request[id].status = "pending" ) =>
            /\ group_join_request'[id].issue_id \in DOMAIN issues'
            /\ issues'[group_join_request'[id].issue_id].group_id
                 = group_join_request'[id].group_id
     /\ \A i \in DOMAIN issues \cap DOMAIN issues' :
          ( /\ issues'[i].group_id # issues[i].group_id
            /\ issues'[i].group_id # NULL ) =>
            \E id \in DOMAIN group_join_request' :
              /\ group_join_request'[id].issue_id = i
              /\ group_join_request'[id].group_id = issues'[i].group_id
              /\ group_join_request'[id].status \in ApprovedStatuses]_vars

\* C24: a reassignment is one step: in every step each group's issue_count
\* changes by exactly the change in the number of issues whose group_id
\* points at it, so no state has an issue pointing at one group while
\* another still counts it, or counted before it points there.
C24_ReassignAtomic ==
  [][\A g \in DOMAIN groups :
       groups'[g].issue_count - groups[g].issue_count
         = MemberCount(g)' - MemberCount(g)]_vars

\* an issue has been moved from one group into another that had members
C24_Witness ==
  /\ LastOp = "reassign"
  /\ hist.old # NULL /\ hist.new # NULL /\ hist.old # hist.new
  /\ hist.groups[hist.new].issue_count >= 1
  /\ GroupOf(hist.issue_id) = hist.new

\* the call of the request slot First is a finished decision with a valid
\* decision value, made through the handler or through the procedure
DecisionDone ==
  /\ Latest(First)
  /\ \/ /\ hist[First].call.op = "decide"
        /\ hist[First].call.status \in {"accepted", "declined"}
     \/ hist[First].call.op = "process"

\* nothing that the call of First could have written differs from what the
\* call found
NothingWritten ==
  /\ group_join_request = hist[First].group_join_request
  /\ issues = hist[First].issues
  /\ groups = hist[First].groups

\* C25: a decision on a request that is not stored fails as not found (404)
\* and a decision on a stored request that is not pending fails as a
\* conflict (400); in both cases the requests, the issues with their
\* group_id and the groups with their counters are as the call found them.
C25_DecideRefused ==
  DecisionDone =>
    /\ hist[First].call.id \notin DOMAIN hist[First].group_join_request =>
         /\ req[First].res.status = 404
         /\ NothingWritten
    /\ ( /\ hist[First].call.id \in DOMAIN hist[First].group_join_request
         /\ Decided.status # "pending" ) =>
         /\ req[First].res.status = 400
         /\ NothingWritten

\* the call of the request slot First is a finished cancellation, made
\* through the handler or through the procedure, of a stored request by the
\* side that every path admits: the owner who made the request
CancelDone ==
  /\ Latest(First)
  /\ hist[First].call.op \in {"cancel", "cancel_proc"}
  /\ hist[First].call.id \in DOMAIN hist[First].group_join_request
  /\ Decided.issue_id \in DOMAIN hist[First].issues
  /\ IF Decided.requested_by_group
     THEN hist[First].groups[Decided.group_id].owner_id
            = hist[First].call.userId
     ELSE hist[First].issues[Decided.issue_id].user_id
            = hist[First].call.userId

\* C26: a cancellation of a pending request stores the status cancelled and
\* a handled_at stamp and leaves every other request, the issue's group_id
\* and every group's issue_count as they were; a cancellation of a request
\* that is not pending fails as a conflict (400) and changes nothing.
C26_CancelEffect ==
  CancelDone =>
    IF Decided.status = "pending"
    THEN /\ req[First].res.status = 200
         /\ group_join_request[hist[First].call.id].status = "cancelled"
         /\ group_join_request[hist[First].call.id].handled_at # 0
         /\ \A id \in DOMAIN hist[First].group_join_request \
                        {hist[First].call.id} :
              group_join_request[id] = hist[First].group_join_request[id]
         /\ issues = hist[First].issues
         /\ groups = hist[First].groups
    ELSE /\ req[First].res.status = 400
         /\ NothingWritten

\* C27: in every state each user has at most one pending role-change
\* request, whatever roles are asked for.
C27_SingleFlight ==
  \A u \in Users : Cardinality(PendingForUser(u)) <= 1

\* the call of the request slot First is a finished decision of an admin,
\* with a valid status, on a role-change request that was stored and
\* pending when the call arrived
RoleDecided ==
  /\ Latest(First)
  /\ hist[First].call.op = "decide"
  /\ hist[First].call.status \in {"approved", "rejected"}
  /\ hist[First].call.id \in DOMAIN hist[First].role_change_request
  /\ hist[First].role_change_request[hist[First].call.id].status = "pending"

\* the role-change request that the decision of First is about, as found
RoleRequest == hist[First].role_change_request[hist[First].call.id]

\* C28: an approving decision on a pending role-change request succeeds,
\* sets the user's role to the requested role and stores the status approved
\* with reviewed_at stamped; a rejecting decision succeeds, stores the status
\* rejected with reviewed_at stamped and leaves every user's role as it was.
C28_DecideRoleChange ==
  RoleDecided =>
    /\ req[First].res.status = 200
    /\ role_change_request[hist[First].call.id].status
         = hist[First].call.status
    /\ role_change_request[hist[First].call.id].reviewed
    /\ users = IF hist[First].call.status = "approved"
               THEN [hist[First].users EXCEPT ![RoleRequest.user_id] =
                       RoleRequest.requested_role_id]
               ELSE hist[First].users

\* the call of the request slot First is a finished submission of a
\* role-change request, through either endpoint, by a user who had no
\* pending request when the call arrived
RoleSubmitted ==
  /\ Latest(First)
  /\ hist[First].call.op \in {"submit", "submit_one"}
  /\ hist[First].call.requested_role_id # NULL
  /\ \A id \in DOMAIN hist[First].role_change_request :
       hist[First].role_change_request[id].user_id = hist[First].call.userId
         => hist[First].role_change_request[id].status # "pending"

\* C29: a submission for the role the user already has fails as a conflict
\* (400) and a submission for a role that does not exist fails as not found
\* (404); in both cases no request is stored.
C29_SubmitRoleRefused ==
  RoleSubmitted =>
    /\ hist[First].call.requested_role_id
         = hist[First].users[hist[First].call.userId] =>
           /\ req[First].res.status = 400
           /\ role_change_request = hist[First].role_change_request
    /\ hist[First].call.requested_role_id \notin DOMAIN hist[First].roles =>
           /\ req[First].res.status = 404
           /\ role_change_request = hist[First].role_change_request

\* the call of the request slot First is a finished toggle on an id that no
\* row of the subject's table had when the call arrived
ToggledAbsent ==
  /\ Latest(First)
  /\ "call" \in DOMAIN hist[First]
  /\ hist[First].call.id \notin
       DOMAIN (IF hist[First].call.kind = "issue"
               THEN hist[First].issues ELSE hist[First].groups)

\* C30: a toggle on a subject that does not exist fails as not found (404),
\* stores no Vote and changes no counter.
C30_AbsentSubject ==
  ToggledAbsent =>
    /\ req[First].res.status = 404
    /\ issue_upvotes = hist[First].issue_upvotes
    /\ group_upvotes = hist[First].group_upvotes
    /\ issues = hist[First].issues
    /\ groups = hist[First].groups

\* the content is empty or made of blanks only
Blank(c) == \A k \in 1..Len(c) : c[k] = " "

\* C31: a comment whose content is empty or only whitespace is refused (400):
\* the subject has as many comments as before and its comment_count is as
\* before.
C31_BlankCommentRefused ==
  \A q \in Reqs :
    (Latest(q) /\ Blank(hist[q].content)) =>
      /\ req[q].res.status = 400
      /\ CommentTable(req[q].kind)[req[q].id] = hist[q].startRows
      /\ CommentCount(req[q].kind, req[q].id) = hist[q].startCount

\* a comment of one blank has been refused
C31_Witness ==
  \E q \in Reqs :
    /\ Latest(q)
    /\ hist[q].content = <<" ">>
    /\ req[q].res.status = 400

\* from table t to table t2 the votes of each user on each subject are either
\* all deleted or all kept as they are, possibly with a new one beside them
VotesKept(t, t2) ==
  \A x \in DOMAIN t :
    \/ \A y \in DOMAIN t :
         (y.subject_id = x.subject_id /\ y.user_id = x.user_id) => t2[y] = 0
    \/ \A y \in DOMAIN t :
         (y.subject_id = x.subject_id /\ y.user_id = x.user_id) => t2[y] >= t[y]

\* C32: no step changes the stored weight of an existing vote: the votes of
\* a user on a subject are deleted, or they stay as they are.
C32_StoredWeightFrozen ==
  [][/\ VotesKept(issue_upvotes, issue_upvotes')
     /\ VotesKept(group_upvotes, group_upvotes')]_vars

\* a vote is held whose stored weight is no longer its voter's role weight
C32_Witness ==
  \/ \E x \in DOMAIN issue_upvotes :
       issue_upvotes[x] > 0 /\ x.upvote_weight # TriggerWeight(x.user_id)
  \/ \E x \in DOMAIN group_upvotes :
       group_upvotes[x] > 0 /\ x.upvote_weight # TriggerWeight(x.user_id)

\* the issue of the submission of First was in the target group when the
\* call arrived
AlreadyLinked ==
  hist[First].issues[hist[First].call.issue_id].group_id
    = hist[First].call.group_id

\* C33: a submission by an entitled owner for an issue that is already in
\* the target group is refused as a conflict (400): no request is stored and
\* the issues and the groups with their counters are as before, also when
\* the submitter owns both the issue and the group.
C33_AlreadyInGroup ==
  (SubmitByOwner /\ AlreadyLinked) =>
    /\ req[First].res.status = 400
    /\ group_join_request = hist[First].group_join_request
    /\ issues = hist[First].issues
    /\ groups = hist[First].groups

\* the owner of an issue and of the group it is in has been refused
C33_Witness ==
  /\ SubmitByOwner
  /\ AlreadyLinked
  /\ OwnsGroup
  /\ OwnsIssue
  /\ req[First].res.status = 400

\* C34: a successful submission by a caller who does not own both the issue
\* and the group stores one request, pending with handled_at unset, and
\* leaves every issue in the group it was in.
C34_AutoApprovalOnlyForOwnerOfBoth ==
  (SubmitDone /\ req[First].res.status = 201 /\ ~(OwnsGroup /\ OwnsIssue)) =>
    /\ req[First].res.request.status = "pending"
    /\ req[First].res.request.handled_at = 0
    /\ Created = {req[First].res.req_id}
    /\ group_join_request[req[First].res.req_id].status = "pending"
    /\ group_join_request[req[First].res.req_id].handled_at = 0
    /\ issues = hist[First].issues
    /\ groups = hist[First].groups

\* the owner of a group has asked for another user's issue and the request
\* is stored pending
C34_Witness ==
  /\ SubmitDone
  /\ req[First].res.status = 201
  /\ OwnsGroup
  /\ ~OwnsIssue
  /\ group_join_request[req[First].res.req_id].status = "pending"

\* the four statuses of a join request
JoinStatuses == {"pending", "approved", "declined", "cancelled"}

\* C35: the status of every stored join request is one of pending, approved,
\* declined and cancelled, and an accepting decision that succeeds leaves
\* its request with the status approved.
C35_StatusDomain ==
  /\ \A id \in DOMAIN group_join_request :
       group_join_request[id].status \in JoinStatuses
  /\ ( /\ DecidedPending
       /\ hist[First].call.status = "accepted"
       /\ req[First].res.status = 200 ) =>
       group_join_request[hist[First].call.id].status = "approved"

\* C36: the comment count that the read of one issue reports is the stored
\* comment_count of the issue, and the issue count that the listing of the
\* groups reports for a group is the stored issue_count of the group.
C36_ReadsReportStoredCounters ==
  Latest(First) =>
    /\ (req[First].kind = "get_issue" /\ req[First].res.status = 200) =>
         req[First].res.comment_count
           = hist[First].issues[req[First].id].comment_count
    /\ req[First].kind = "get_groups" =>
         \A g \in DOMAIN hist[First].groups :
           req[First].res.groups[g].issue_count
             = hist[First].groups[g].issue_count

\* request q holds the answer 200 of a decision on, or a cancellation of,
\* the join request id
TookEffect(q, id) ==
  /\ req[q].pc = "done"
  /\ req[q].res.status = 200
  /\ "request_id" \in DOMAIN req[q].res
  /\ req[q].res.request_id = id

\* C37: of the decisions and cancellations of one pending join request,
\* however their statements interleave, one only takes effect: no two of
\* them are answered with success, and an issue is in the group of a request
\* that such a call has settled only when the settled status is the
\* approving one.
C37_OneTakesEffect ==
  /\ \A p, q \in Reqs : \A id \in DOMAIN group_join_request :
       (TookEffect(p, id) /\ TookEffect(q, id)) => p = q
  /\ \A q \in Reqs : \A id \in DOMAIN group_join_request :
       ( /\ TookEffect(q, id)
         /\ \A p \in Reqs : ~InFlight(p)
         /\ issues[group_join_request[id].issue_id].group_id
              = group_join_request[id].group_id ) =>
         group_join_request[id].status \in ApprovedStatuses

\* C38: a submission that fails (any answer other than 201) leaves every
\* issue in the group it was in and every group's issue_count as it was.
C38_FailedSubmitChangesNothing ==
  ( /\ Latest(First)
    /\ hist[First].call.op = "submit"
    /\ req[First].res.status # 201 ) =>
    /\ \A i \in DOMAIN hist[First].issues :
         /\ i \in DOMAIN issues
         /\ issues[i].group_id = hist[First].issues[i].group_id
    /\ \A g \in DOMAIN hist[First].groups :
         groups[g].issue_count = hist[First].groups[g].issue_count

\* the call of First is a finished toggle on a stored subject by a voter
\* whose role weight the query cannot find
ToggledUnresolved ==
  /\ Latest(First)
  /\ "call" \in DOMAIN hist[First]
  /\ hist[First].call.id \in
       DOMAIN (IF hist[First].call.kind = "issue"
               THEN hist[First].issues ELSE hist[First].groups)
  /\ RoleWeightQuery(hist[First].call.userId) = 0

\* C39: a toggle by a voter whose role weight cannot be resolved does not
\* fail: it is answered 200, the vote is stored with weight 1 and the
\* subject's upvote_count is one more than before.
C39_UnresolvedWeightDefaultsToOne ==
  ToggledUnresolved =>
    LET kind == hist[First].call.kind
        s == hist[First].call.id
        u == hist[First].call.userId
        before == IF kind = "issue" THEN hist[First].issues[s].upvote_count
                  ELSE hist[First].groups[s].upvote_count
    IN /\ req[First].res.status = 200
       /\ StoredWeight(kind, s, u) = 1
       /\ UpvoteCount(kind, s) = before + 1

\* the call of First is a finished decision on a role-change request that
\* was absent or no longer pending when the call arrived
RoleDecidedAgain ==
  /\ Latest(First)
  /\ hist[First].call.op = "decide"
  /\ \/ hist[First].call.id \notin DOMAIN hist[First].role_change_request
     \/ hist[First].role_change_request[hist[First].call.id].status
          # "pending"

\* a decision on an absent or settled request fails and writes nothing
RoleDecisionRefused ==
  RoleDecidedAgain =>
    /\ req[First].res.status >= 400
    /\ role_change_request = hist[First].role_change_request
    /\ users = hist[First].users

\* a step leaves every settled request as it is, and changes a user's role
\* only by approving a pending request of that user for that role
SettledStays ==
  /\ \A id \in DOMAIN role_change_request :
       role_change_request[id].status # "pending" =>
         /\ id \in DOMAIN role_change_request'
         /\ role_change_request'[id] = role_change_request[id]
  /\ users' # users =>
       \E id \in DOMAIN role_change_request :
         /\ role_change_request[id].status = "pending"
         /\ role_change_request'[id].status = "approved"
         /\ users' = [users EXCEPT ![role_change_request[id].user_id] =
                        role_change_request[id].requested_role_id]

\* C40: a role-change request is decided at most once: a decision on a
\* request that is absent or no longer pending fails and changes neither
\* the request's status and review stamp nor any user's role, and no step
\* changes a request that has been settled.
C40_DecidedAtMostOnce ==
  []RoleDecisionRefused /\ [][SettledStays]_vars

\* a decision on a request that had been settled has been refused
C40_Witness ==
  /\ RoleDecidedAgain
  /\ hist[First].call.id \in DOMAIN hist[First].role_change_request
  /\ hist[First].call.status \in {"approved", "rejected"}
  /\ req[First].res.status >= 400
  /\ role_change_request[hist[First].call.id].status \in
       {"approved", "rejected"}

====
